---------------------------- MODULE Spec2Model ----------------------------
(***************************************************************************)
(* Model of the provider usage resolution engine of the codexbar CLI       *)
(* (crates/codexbar-cli/src/main.rs): the orchestrator selected_entries,   *)
(* the codex strategies (app-server RPC session, /status scrape), the      *)
(* claude strategy (token resolution, HTTP fetch through curl) and the     *)
(* process runner run_command_with_timeout_and_input.                      *)
(*                                                                         *)
(* One behaviour is one invocation of `codexbar usage` or of `codexbar     *)
(* auth`.  The program is single threaded: pc is its position.  The child  *)
(* processes and the clock are the environment; their steps are the        *)
(* Child... and Tick actions and the outcomes drawn with \E inside the     *)
(* program's steps.                                                        *)
(*                                                                         *)
(* The text and number conversions (strip_ansi_sequences, the /status      *)
(* extractors, the windowed percent search, remaining_percent and          *)
(* RateWindow::from_codexbar_cli_value) are operators; SpecConversions     *)
(* applies them to operands drawn from bounded sets.                       *)
(***************************************************************************)
EXTENDS Integers, Sequences, FiniteSets, TLC

VARIABLES
    pc,          \* position of the single thread of control
    args,        \* the parsed command line: [command, provider, source] (strings are
                 \* sequences of characters)
    providers,   \* the Vec returned by requested_providers
    idx,         \* 1-based index of the provider the `for` loop is at
    entries,     \* selected_entries: the Vec<ProviderEntry> being built
    result,      \* what selected_entries returned to run_usage, or what run_auth
                 \* returned (Pending until then)
    rpcOutcome,  \* fetch_codex_entry: the value of fetch_codex_entry_via_rpc(args)
    live,        \* the value of fetch_live_entry(provider, args)
    session,     \* the CodexRpcSession: [child, next_id, killed], the outcome of its
                 \* Command::spawn, the number of calls of request that have
                 \* written their line and not returned, and whether a read of the
                 \* child's stdout has returned end of file
    req,         \* CodexRpcSession::request: [id, method] of the outstanding request
    reqOutcome,  \* the Result<Value> the request returned
    message,     \* read_message: the last line read from the child's stdout
    linesRead,   \* number of lines the session's child has produced and the session read
    sent,        \* the lines written to the session child's stdin, in order
    account,     \* fetch_codex_entry_via_rpc: `account`
    run,         \* the frame of run_command_with_timeout_and_input
    token,       \* fetch_claude_entry: the resolved access token and where it came from
    spawnLog,    \* every Command::spawn attempted, in order
    orphans,     \* children whose handle was dropped before they were reaped
    consulted,   \* resolve_claude_oauth_access_token: the sources read so far, in order
    stored,      \* store_claude_secret: its value (Pending until it returns) and the
                 \* backends that have answered, in order
    operand,     \* the argument of a conversion applied on its own: a text, a
                 \* window of a response, a window of a payload
    converted    \* what the conversion has made of it so far

vars == << pc, args, providers, idx, entries, result, rpcOutcome, live, session,
           req, reqOutcome, message, linesRead, sent, account, run, token,
           spawnLog, orphans, consulted, stored, operand, converted >>

-----------------------------------------------------------------------------
(* Bounds of the model.                                                    *)

\* Lines one app-server child writes to its stdout during a session.
MaxLines == 4

-----------------------------------------------------------------------------
(* Option and Result values.                                               *)

None == [k |-> "None"]
Some(v) == [k |-> "Some", v |-> v]
Ok(v) == [k |-> "Ok", v |-> v]
Err(e) == [k |-> "Err", e |-> e]
Pending == [k |-> "Pending"]

IsSome(o) == o.k = "Some"
IsNone(o) == o.k = "None"
IsOk(r) == r.k = "Ok"
IsErr(r) == r.k = "Err"

-----------------------------------------------------------------------------
(* Strings: sequences of one-character strings.                            *)

UpperCase == << "A","B","C","D","E","F","G","H","I","J","K","L","M",
                "N","O","P","Q","R","S","T","U","V","W","X","Y","Z" >>
LowerCase == << "a","b","c","d","e","f","g","h","i","j","k","l","m",
                "n","o","p","q","r","s","t","u","v","w","x","y","z" >>

\* u8::to_ascii_lowercase
ToLowerChar(c) ==
    IF \E i \in 1..Len(UpperCase) : UpperCase[i] = c
        THEN LowerCase[CHOOSE i \in 1..Len(UpperCase) : UpperCase[i] = c]
        ELSE c

\* str::to_ascii_lowercase
ToAsciiLowercase(s) == [i \in 1..Len(s) |-> ToLowerChar(s[i])]

\* str::eq_ignore_ascii_case
EqIgnoreAsciiCase(a, b) == ToAsciiLowercase(a) = ToAsciiLowercase(b)

WhiteSpace == {" ", "\t", "\n", "\r"}

\* str::trim: the longest substring without leading and trailing white space
Trim(s) ==
    LET keep == {i \in 1..Len(s) : s[i] \notin WhiteSpace}
    IN  IF keep = {} THEN << >>
        ELSE LET lo == CHOOSE i \in keep : \A j \in keep : i <= j
                 hi == CHOOSE i \in keep : \A j \in keep : i >= j
             IN  SubSeq(s, lo, hi)

S_auto == << "a","u","t","o" >>
S_all == << "a","l","l" >>
S_both == << "b","o","t","h" >>
S_codex == << "c","o","d","e","x" >>
S_claude == << "c","l","a","u","d","e" >>
S_codex_cli == << "c","o","d","e","x","-","c","l","i" >>
S_codex_status == << "c","o","d","e","x","-","s","t","a","t","u","s" >>
S_claude_oauth_api == << "c","l","a","u","d","e","-","o","a","u","t","h","-","a","p","i" >>

-----------------------------------------------------------------------------
(* The lines an app-server child can write to its stdout.                  *)
(*                                                                         *)
(* A line is blank, text that is no JSON, bytes that are no UTF-8, or one  *)
(* JSON value.  A JSON value is an object with an optional "id" (absent,   *)
(* a string, or an integer), an optional "error" and an optional "result". *)

\* The "id" member of a JSON object: absent, a JSON string, or an integer.
NoId == [t |-> "absent"]
StringId == [t |-> "string"]       \* Value::as_i64 gives None
IntId(n) == [t |-> "int", n |-> n]

\* The ids of the requests one strategy attempt sends (initialize, account/read,
\* account/rateLimits/read), and 99, an id no request of the session carries.
RequestIds == 1..3
LineIds == {NoId, StringId, IntId(99)} \cup {IntId(n) : n \in RequestIds}

Absent == [t |-> "absent"]

\* A rate-limit window of the app-server: usedPercent may be missing.
RpcWindow(used) == [used_percent |-> used]

\* JSON values used as "result".
ResultValues ==
    { [t |-> "empty"],                                   \* {}
      [t |-> "account", type |-> "chatgpt"],             \* {"account":{"type":"chatgpt",...}}
      [t |-> "account", type |-> "apiKey"],
      [t |-> "account", type |-> "unknown"],             \* a variant serde does not know
      [t |-> "limits", primary |-> Some(RpcWindow(Some(28))),
                       secondary |-> Some(RpcWindow(Some(61))), credits |-> Some(5)],
      [t |-> "limits", primary |-> Some(RpcWindow(None)),
                       secondary |-> None, credits |-> Some(5)],
      [t |-> "limits", primary |-> None,
                       secondary |-> Some(RpcWindow(Some(150))), credits |-> None] }

JsonLines ==
    { [kind |-> "json", id |-> i, hasError |-> e, result |-> r] :
        i \in LineIds,
        e \in BOOLEAN,
        r \in ResultValues \cup {Absent} }

BlankLine == [kind |-> "blank"]
TextLine == [kind |-> "text"]        \* e.g. `not json`
BadUtf8Line == [kind |-> "badutf8"]  \* bytes that are not valid UTF-8
NoLine == [kind |-> "none"]
EndOfFile == [kind |-> "eof"]        \* read_line returned 0

Lines == JsonLines \cup {BlankLine, TextLine, BadUtf8Line}

\* message.get("id").and_then(Value::as_i64)
MessageId(m) ==
    IF m.kind = "json" /\ m.id.t = "int" THEN Some(m.id.n) ELSE None

\* A variant of ResponseOutcome that looks at `result` before `error`.
ResponseOutcome_ResultFirst(m, method) ==
    IF m.result # Absent THEN Ok(m.result)
    ELSE IF m.hasError THEN Err([kind |-> "RpcError", method |-> method])
    ELSE Err([kind |-> "MissingResult", method |-> method])

\* CodexRpcSession::request, lines 1018-1026: what the loop does with the message
\* whose id matched.
ResponseOutcome(m, method) ==
    IF m.hasError THEN Err([kind |-> "RpcError", method |-> method])
    ELSE IF m.result # Absent THEN Ok(m.result)
    ELSE Err([kind |-> "MissingResult", method |-> method])

\* serde_json::from_value::<RpcAccountResponse>: `account` is optional, unknown
\* members are ignored, an unknown "type" tag is an error.
DecodeAccount(v) ==
    IF v.t = "account"
        THEN IF v.type \in {"chatgpt", "apiKey"}
                THEN Ok([account |-> Some(v.type)])
                ELSE Err([kind |-> "Decode"])
        ELSE Ok([account |-> None])

\* serde_json::from_value::<RpcRateLimitsResponse>: `rateLimits` is required.
DecodeRateLimits(v) ==
    IF v.t = "limits"
        THEN Ok([primary |-> v.primary, secondary |-> v.secondary, credits |-> v.credits])
        ELSE Err([kind |-> "Decode"])

\* rate_window_from_codex
rate_window_from_codex(window) ==
    IF IsNone(window) THEN None
    ELSE IF IsNone(window.v.used_percent) THEN None
    ELSE Some([used_percent |-> Some(window.v.used_percent.v)])

\* A variant of build_codex_entry that always takes the strategy's label.
build_codex_entry_IgnoreArgs(a, primary, secondary, credits_remaining, identity, default_source) ==
    [ provider |-> S_codex,
      source |-> Some(default_source),
      primary |-> primary, secondary |-> secondary, tertiary |-> None,
      credits_remaining |-> credits_remaining, identity |-> identity ]

\* build_codex_entry: the source is the strategy's label only for --source auto.
build_codex_entry(a, primary, secondary, credits_remaining, identity, default_source) ==
    [ provider |-> S_codex,
      source |-> Some(IF EqIgnoreAsciiCase(a.source, S_auto)
                          THEN default_source ELSE a.source),
      primary |-> primary, secondary |-> secondary, tertiary |-> None,
      credits_remaining |-> credits_remaining, identity |-> identity ]

\* A variant of RpcEntry that builds the entry also from a credits balance alone.
RpcEntry_CreditsSuffice(a, acct, limits) ==
    LET primary == rate_window_from_codex(limits.primary)
        secondary == rate_window_from_codex(limits.secondary)
        identity == IF IsSome(acct) /\ IsSome(acct.v.account) /\ acct.v.account.v = "chatgpt"
                        THEN Some([login_method |-> "plan"]) ELSE None
    IN  IF IsNone(primary) /\ IsNone(secondary) /\ IsNone(limits.credits) THEN None
        ELSE Some(build_codex_entry(a, primary, secondary, limits.credits,
                                    identity, S_codex_cli))

\* fetch_codex_entry_via_rpc after both fetches: the entry, or None when neither
\* window has a usedPercent.
RpcEntry(a, acct, limits) ==
    LET primary == rate_window_from_codex(limits.primary)
        secondary == rate_window_from_codex(limits.secondary)
        identity == IF IsSome(acct) /\ IsSome(acct.v.account) /\ acct.v.account.v = "chatgpt"
                        THEN Some([login_method |-> "plan"]) ELSE None
    IN  IF IsNone(primary) /\ IsNone(secondary) THEN None
        ELSE Some(build_codex_entry(a, primary, secondary, limits.credits,
                                    identity, S_codex_cli))

-----------------------------------------------------------------------------
(* Initial state: the arguments of the invocation.                         *)

ProviderArgs ==
    { S_all, << " ","B","o","t","h" >>, S_codex, << "C","l","a","u","d","e"," " >>,
      << "g","e","m","i","n","i" >>, << " " >> }

SourceArgs == { S_auto, << "A","u","t","o" >>, << "c","l","i" >> }

\* `codexbar usage --provider P --source S` and `codexbar auth --provider P`.
UsageCommands == [command : {"usage"}, provider : ProviderArgs, source : SourceArgs]
AuthCommands ==
    [command : {"auth"},
     provider : { S_claude, << "C","l","a","u","d","e"," " >>, S_codex },
     source : {S_auto}]

\* What a child has written to its stdout and stderr.
Empty == [t |-> "empty"]                 \* nothing
TextOut(s) == [t |-> "text", s |-> s]    \* these characters

NoSession == [child |-> "none", next_id |-> 0, killed |-> FALSE, spawn |-> "none",
              outstanding |-> 0, eof |-> FALSE]
NoReq == [id |-> 0, method |-> "none"]
NotStored == [value |-> Pending, attempts |-> << >>]
NoOperand == [kind |-> "none"]
NotConverted == [cleaned |-> << >>, passes |-> 0, value |-> Pending, shown |-> Pending]
NoRun == [caller |-> "none", hasInput |-> FALSE, child |-> "none", exitOk |-> FALSE,
          stdout |-> Empty, deadlinePassed |-> FALSE, aliveAtDeadline |-> FALSE,
          killed |-> FALSE, result |-> Pending]

Init ==
    /\ args \in UsageCommands \cup AuthCommands
    /\ pc = IF args.command = "usage" THEN "start" ELSE "auth_start"
    /\ providers = << >>
    /\ idx = 0
    /\ entries = << >>
    /\ result = Pending
    /\ rpcOutcome = Pending
    /\ live = Pending
    /\ session = NoSession
    /\ req = NoReq
    /\ reqOutcome = Pending
    /\ message = NoLine
    /\ linesRead = 0
    /\ sent = << >>
    /\ account = None
    /\ run = NoRun
    /\ token = None
    /\ spawnLog = << >>
    /\ orphans = 0
    /\ consulted = << >>
    /\ stored = NotStored
    /\ operand = NoOperand
    /\ converted = NotConverted

-----------------------------------------------------------------------------
(* selected_entries                                                        *)

\* A variant of requested_providers that lists claude first.
requested_providers_ClaudeFirst(raw) ==
    LET normalized == ToAsciiLowercase(Trim(raw))
    IN  IF normalized = S_all \/ normalized = S_both THEN Ok(<< "claude", "codex" >>)
        ELSE IF normalized = S_codex THEN Ok(<< "codex" >>)
        ELSE IF normalized = S_claude THEN Ok(<< "claude" >>)
        ELSE Err([kind |-> "UnknownProvider"])

\* A variant of requested_providers that takes an unknown selector for "all".
requested_providers_DefaultAll(raw) ==
    LET normalized == ToAsciiLowercase(Trim(raw))
    IN  IF normalized = S_codex THEN Ok(<< "codex" >>)
        ELSE IF normalized = S_claude THEN Ok(<< "claude" >>)
        ELSE Ok(<< "codex", "claude" >>)

\* requested_providers
requested_providers(raw) ==
    LET normalized == ToAsciiLowercase(Trim(raw))
    IN  IF normalized = S_all \/ normalized = S_both THEN Ok(<< "codex", "claude" >>)
        ELSE IF normalized = S_codex THEN Ok(<< "codex" >>)
        ELSE IF normalized = S_claude THEN Ok(<< "claude" >>)
        ELSE Err([kind |-> "UnknownProvider"])

\* selected_entries, line 145: `requested_providers(&args.provider)?`
SelStart ==
    /\ pc = "start"
    /\ LET r == requested_providers(args.provider)
       IN  IF IsErr(r)
              THEN /\ result' = r
                   /\ pc' = "done"
                   /\ UNCHANGED << providers, idx >>
              ELSE /\ providers' = r.v
                   /\ idx' = 1
                   /\ pc' = "sel_loop"
                   /\ UNCHANGED result
    /\ UNCHANGED << args, entries, rpcOutcome, live, session, req, reqOutcome,
                    message, linesRead, sent, account, run, token, spawnLog, orphans,
                    consulted, stored, operand, converted >>

\* The next iteration of the `for` loop: fetch_live_entry dispatches on the provider.
SelNext ==
    /\ pc = "sel_loop"
    /\ idx <= Len(providers)
    /\ pc' = IF providers[idx] = "codex" THEN "rpc_start" ELSE "claude_env"
    /\ UNCHANGED << args, providers, idx, entries, result, rpcOutcome, live, session,
                    req, reqOutcome, message, linesRead, sent, account, run, token,
                    spawnLog, orphans, consulted, stored, operand, converted >>

\* A variant of HandleLive that returns the error of fetch_live_entry (`?`).
HandleLive_Propagate ==
    /\ pc = "sel_handle"
    /\ IF IsErr(live)
          THEN /\ result' = live
               /\ pc' = "done"
               /\ UNCHANGED << entries, idx >>
          ELSE /\ entries' = IF IsSome(live.v) THEN Append(entries, live.v.v) ELSE entries
               /\ idx' = idx + 1
               /\ pc' = "sel_loop"
               /\ UNCHANGED result
    /\ live' = Pending
    /\ rpcOutcome' = Pending
    /\ UNCHANGED << args, providers, session, req, reqOutcome, message,
                    linesRead, sent, account, run, token, spawnLog, orphans,
                    consulted, stored, operand, converted >>

\* A variant of HandleLive that resolves the provider again after an Err.
HandleLive_Retry ==
    /\ pc = "sel_handle"
    /\ LET entry == IF IsOk(live) THEN live.v ELSE None
       IN  entries' = IF IsSome(entry) THEN Append(entries, entry.v) ELSE entries
    /\ idx' = IF IsErr(live) THEN idx ELSE idx + 1
    /\ pc' = "sel_loop"
    /\ live' = Pending
    /\ rpcOutcome' = Pending
    /\ UNCHANGED << args, providers, result, session, req, reqOutcome, message,
                    linesRead, sent, account, run, token, spawnLog, orphans,
                    consulted, stored, operand, converted >>

\* selected_entries, lines 149-161: an Err of fetch_live_entry is logged and becomes
\* None; an entry is pushed; the loop goes on with the next provider.
HandleLive ==
    /\ pc = "sel_handle"
    /\ LET entry == IF IsOk(live) THEN live.v ELSE None
       IN  entries' = IF IsSome(entry) THEN Append(entries, entry.v) ELSE entries
    /\ idx' = idx + 1
    /\ pc' = "sel_loop"
    /\ live' = Pending
    /\ rpcOutcome' = Pending
    /\ UNCHANGED << args, providers, result, session, req, reqOutcome, message,
                    linesRead, sent, account, run, token, spawnLog, orphans,
                    consulted, stored, operand, converted >>

\* A variant of SelectedResult without the is_empty check.
SelectedResult_AlwaysOk(es) == Ok(es)

\* selected_entries, lines 164-171: the value returned once the loop is over.
SelectedResult(es) ==
    IF es = << >> THEN Err([kind |-> "AllProvidersFailed"]) ELSE Ok(es)

SelReturn ==
    /\ pc = "sel_loop"
    /\ idx > Len(providers)
    /\ result' = SelectedResult(entries)
    /\ pc' = "done"
    /\ UNCHANGED << args, providers, idx, entries, rpcOutcome, live, session, req,
                    reqOutcome, message, linesRead, sent, account, run, token,
                    spawnLog, orphans, consulted, stored, operand, converted >>

-----------------------------------------------------------------------------
(* fetch_codex_entry_via_rpc and CodexRpcSession                           *)

RpcPcs == {"req_send", "req_read", "req_ret", "rpc_notify", "rpc_drop"}

\* The outcomes of Command::spawn.
SpawnOutcomes == {"spawned", "NotFound", "OtherError"}

\* A variant of start for which a program that is not installed is an error.
start_NotFoundIsError(spawn) ==
    IF spawn = "spawned"
        THEN Ok(Some([child |-> "running", next_id |-> 1, killed |-> FALSE,
                      spawn |-> spawn, outstanding |-> 0, eof |-> FALSE]))
        ELSE Err([kind |-> "Spawn"])

\* CodexRpcSession::start: spawn `codex ... app-server` with stdin and stdout piped.
\* NotFound is Ok(None); any other spawn error is an error.
start(spawn) ==
    CASE spawn = "spawned" ->
            Ok(Some([child |-> "running", next_id |-> 1, killed |-> FALSE,
                     spawn |-> spawn, outstanding |-> 0, eof |-> FALSE]))
      [] spawn = "NotFound" -> Ok(None)
      [] OTHER -> Err([kind |-> "Spawn"])

\* fetch_codex_entry_via_rpc, lines 331-334: `start()?`; None returns Ok(None).
RpcStart ==
    /\ pc = "rpc_start"
    /\ spawnLog' = Append(spawnLog, "codex app-server")
    /\ \E spawn \in SpawnOutcomes :
          LET started == start(spawn)
          IN  IF IsOk(started) /\ IsSome(started.v)
                 THEN /\ session' = started.v.v
                      /\ req' = [id |-> 0, method |-> "initialize"]
                      /\ pc' = "req_send"
                      /\ UNCHANGED rpcOutcome
                 ELSE /\ session' = [session EXCEPT !.spawn = spawn]
                      /\ rpcOutcome' = started
                      /\ pc' = "codex_after_rpc"
                      /\ UNCHANGED req
    /\ UNCHANGED << args, providers, idx, entries, result, live, reqOutcome, message,
                    linesRead, sent, account, run, token, orphans, consulted, stored,
                    operand, converted >>

\* The app-server child closes its stdout on its own and goes on reading its
\* stdin: what it has written can still be read, then read_line returns 0.
SessionChildClose ==
    /\ pc \in RpcPcs
    /\ session.child = "running"
    /\ session' = [session EXCEPT !.child = "stdout_closed"]
    /\ UNCHANGED << pc, args, providers, idx, entries, result, rpcOutcome, live, req,
                    reqOutcome, message, linesRead, sent, account, run, token,
                    spawnLog, orphans, consulted, stored, operand, converted >>

\* The app-server child exits on its own: both of its pipes are closed.
SessionChildExit ==
    /\ pc \in RpcPcs
    /\ session.child \in {"running", "stdout_closed"}
    /\ session' = [session EXCEPT !.child = "exited"]
    /\ UNCHANGED << pc, args, providers, idx, entries, result, rpcOutcome, live, req,
                    reqOutcome, message, linesRead, sent, account, run, token,
                    spawnLog, orphans, consulted, stored, operand, converted >>

\* A variant of ReqSend that returns once the line is written, without reading
\* the response.
ReqSend_NoWait ==
    /\ pc = "req_send"
    /\ LET id == session.next_id
       IN  /\ req' = [req EXCEPT !.id = id]
           /\ \/ /\ session.child \in {"running", "stdout_closed"}
                 /\ session' = [session EXCEPT !.next_id = id + 1,
                                               !.outstanding = @ + 1]
                 /\ sent' = Append(sent, [id |-> Some(id), method |-> req.method])
                 /\ reqOutcome' = Ok([t |-> "empty"])
              \/ /\ session' = [session EXCEPT !.next_id = id + 1]
                 /\ reqOutcome' = Err([kind |-> "Write", method |-> req.method])
                 /\ UNCHANGED sent
    /\ pc' = "req_ret"
    /\ message' = NoLine
    /\ UNCHANGED << args, providers, idx, entries, result, rpcOutcome, live,
                    linesRead, account, run, token, spawnLog, orphans,
                    consulted, stored, operand, converted >>

\* A variant of ReqSend that keeps the counter when the write fails.
ReqSend_KeepIdOnFailure ==
    /\ pc = "req_send"
    /\ LET id == session.next_id
       IN  /\ req' = [req EXCEPT !.id = id]
           /\ \/ /\ session.child \in {"running", "stdout_closed"}
                 /\ session' = [session EXCEPT !.next_id = id + 1,
                                               !.outstanding = @ + 1]
                 /\ sent' = Append(sent, [id |-> Some(id), method |-> req.method])
                 /\ pc' = "req_read"
                 /\ UNCHANGED reqOutcome
              \/ /\ reqOutcome' = Err([kind |-> "Write", method |-> req.method])
                 /\ pc' = "req_ret"
                 /\ UNCHANGED << sent, session >>
    /\ message' = NoLine
    /\ UNCHANGED << args, providers, idx, entries, result, rpcOutcome, live,
                    linesRead, account, run, token, spawnLog, orphans,
                    consulted, stored, operand, converted >>

\* CodexRpcSession::request, lines 1002-1009: take the id, advance the counter, write
\* the request line.  The write fails when the child no longer reads its stdin.
ReqSend ==
    /\ pc = "req_send"
    /\ LET id == session.next_id
       IN  /\ req' = [req EXCEPT !.id = id]
           /\ \/ /\ session.child \in {"running", "stdout_closed"}
                 /\ session' = [session EXCEPT !.next_id = id + 1,
                                               !.outstanding = @ + 1]
                 /\ sent' = Append(sent, [id |-> Some(id), method |-> req.method])
                 /\ pc' = "req_read"
                 /\ UNCHANGED reqOutcome
              \/ /\ session' = [session EXCEPT !.next_id = id + 1]
                 /\ reqOutcome' = Err([kind |-> "Write", method |-> req.method])
                 /\ pc' = "req_ret"
                 /\ UNCHANGED sent
    /\ message' = NoLine
    /\ UNCHANGED << args, providers, idx, entries, result, rpcOutcome, live,
                    linesRead, account, run, token, spawnLog, orphans,
                    consulted, stored, operand, converted >>

\* read_message on one line: "skip" (blank, or not JSON: read the next line),
\* "fail" (read_line fails on bytes that are not UTF-8), "value" (a JSON value).
ReadMessageOn(l) ==
    CASE l.kind \in {"blank", "text"} -> "skip"
      [] l.kind = "badutf8" -> "fail"
      [] OTHER -> "value"

\* request, lines 1013-1016: the message is the response iff its id is the request's.
IsResponseTo(m, id) == MessageId(m) = Some(id)

\* request, lines 1011-1027 with read_message: the child has written line l and
\* read_line returns it.
ReqRead ==
    /\ pc = "req_read"
    /\ ~session.eof
    /\ linesRead < MaxLines
    /\ \E l \in Lines :
          /\ message' = l
          /\ CASE ReadMessageOn(l) = "skip" ->
                    UNCHANGED << pc, reqOutcome >>
               [] ReadMessageOn(l) = "fail" ->
                    /\ reqOutcome' = Err([kind |-> "Read", method |-> req.method])
                    /\ pc' = "req_ret"
               [] OTHER ->
                    IF IsResponseTo(l, req.id)
                       THEN /\ reqOutcome' = ResponseOutcome(l, req.method)
                            /\ pc' = "req_ret"
                       ELSE UNCHANGED << pc, reqOutcome >>
    /\ session' = IF pc' = "req_ret" THEN [session EXCEPT !.outstanding = @ - 1]
                                     ELSE session
    /\ linesRead' = linesRead + 1
    /\ UNCHANGED << args, providers, idx, entries, result, rpcOutcome, live,
                    req, sent, account, run, token, spawnLog, orphans,
                    consulted, stored, operand, converted >>

\* A variant of ReqReadEof that takes a read of 0 bytes for a blank line and reads on.
ReqReadEof_ReadOn ==
    /\ pc = "req_read"
    /\ session.child \in {"stdout_closed", "exited"}
    /\ message' = EndOfFile
    /\ session' = [session EXCEPT !.eof = TRUE]
    /\ UNCHANGED << pc, args, providers, idx, entries, result, rpcOutcome, live,
                    req, reqOutcome, linesRead, sent, account, run, token, spawnLog,
                    orphans, consulted, stored, operand, converted >>

\* read_message, lines 1060-1062: read_line returns 0 once the child has closed its
\* stdout and nothing is buffered; from then on no read returns a line.
ReqReadEof ==
    /\ pc = "req_read"
    /\ session.child \in {"stdout_closed", "exited"}
    /\ message' = EndOfFile
    /\ reqOutcome' = Err([kind |-> "Closed", method |-> req.method])
    /\ session' = [session EXCEPT !.outstanding = @ - 1, !.eof = TRUE]
    /\ pc' = "req_ret"
    /\ UNCHANGED << args, providers, idx, entries, result, rpcOutcome, live,
                    req, linesRead, sent, account, run, token, spawnLog, orphans,
                    consulted, stored, operand, converted >>

\* A variant of InitializeRet that goes on to the notification whatever the
\* request returned.
InitializeRet_IgnoreFailure ==
    /\ pc = "req_ret"
    /\ req.method = "initialize"
    /\ pc' = "rpc_notify"
    /\ reqOutcome' = Pending
    /\ UNCHANGED << args, providers, idx, entries, result, rpcOutcome, live, session,
                    req, message, linesRead, sent, account, run, token, spawnLog,
                    orphans, consulted, stored, operand, converted >>

\* initialize, lines 978-986: `self.request("initialize", ..)?`
InitializeRet ==
    /\ pc = "req_ret"
    /\ req.method = "initialize"
    /\ IF IsErr(reqOutcome)
          THEN /\ rpcOutcome' = reqOutcome
               /\ pc' = "rpc_drop"
          ELSE /\ pc' = "rpc_notify"
               /\ UNCHANGED rpcOutcome
    /\ reqOutcome' = Pending
    /\ UNCHANGED << args, providers, idx, entries, result, live, session, req, message,
                    linesRead, sent, account, run, token, spawnLog, orphans,
                    consulted, stored, operand, converted >>

\* initialize, line 987: notify("initialized") writes a line without id; then
\* fetch_account starts.
RpcNotify ==
    /\ pc = "rpc_notify"
    /\ \/ /\ session.child \in {"running", "stdout_closed"}
          /\ sent' = Append(sent, [id |-> None, method |-> "initialized"])
          /\ req' = [id |-> 0, method |-> "account/read"]
          /\ pc' = "req_send"
          /\ UNCHANGED rpcOutcome
       \/ /\ rpcOutcome' = Err([kind |-> "Write", method |-> "initialized"])
          /\ pc' = "rpc_drop"
          /\ UNCHANGED << sent, req >>
    /\ UNCHANGED << args, providers, idx, entries, result, live, session, reqOutcome,
                    message, linesRead, account, run, token, spawnLog, orphans,
                    consulted, stored, operand, converted >>

\* A variant of AccountRet that returns the error of fetch_account (`?`).
AccountRet_Fatal ==
    /\ pc = "req_ret"
    /\ req.method = "account/read"
    /\ IF IsOk(reqOutcome) /\ IsOk(DecodeAccount(reqOutcome.v))
          THEN /\ account' = Some(DecodeAccount(reqOutcome.v).v)
               /\ req' = [id |-> 0, method |-> "account/rateLimits/read"]
               /\ pc' = "req_send"
               /\ UNCHANGED rpcOutcome
          ELSE /\ rpcOutcome' = Err([kind |-> "Account"])
               /\ pc' = "rpc_drop"
               /\ UNCHANGED << account, req >>
    /\ reqOutcome' = Pending
    /\ UNCHANGED << args, providers, idx, entries, result, live, session,
                    message, linesRead, sent, run, token, spawnLog, orphans,
                    consulted, stored, operand, converted >>

\* fetch_codex_entry_via_rpc, line 337: `session.fetch_account().ok()`
AccountRet ==
    /\ pc = "req_ret"
    /\ req.method = "account/read"
    /\ account' = IF IsOk(reqOutcome) /\ IsOk(DecodeAccount(reqOutcome.v))
                     THEN Some(DecodeAccount(reqOutcome.v).v) ELSE None
    /\ req' = [id |-> 0, method |-> "account/rateLimits/read"]
    /\ reqOutcome' = Pending
    /\ pc' = "req_send"
    /\ UNCHANGED << args, providers, idx, entries, result, rpcOutcome, live, session,
                    message, linesRead, sent, run, token, spawnLog, orphans,
                    consulted, stored, operand, converted >>

\* fetch_codex_entry_via_rpc, lines 338-373: `fetch_rate_limits()?`, then the entry.
RateLimitsRet ==
    /\ pc = "req_ret"
    /\ req.method = "account/rateLimits/read"
    /\ rpcOutcome' =
          IF IsErr(reqOutcome) THEN reqOutcome
          ELSE IF IsErr(DecodeRateLimits(reqOutcome.v)) THEN DecodeRateLimits(reqOutcome.v)
          ELSE Ok(RpcEntry(args, account, DecodeRateLimits(reqOutcome.v).v))
    /\ reqOutcome' = Pending
    /\ pc' = "rpc_drop"
    /\ UNCHANGED << args, providers, idx, entries, result, live, session, req, message,
                    linesRead, sent, account, run, token, spawnLog, orphans,
                    consulted, stored, operand, converted >>

\* A variant of DropSession that leaves a running child alone.
DropSession_NoKill(s) ==
    IF s.child \in {"running", "stdout_closed"} THEN s
    ELSE [s EXCEPT !.child = "reaped"]

\* impl Drop for CodexRpcSession: try_wait; a child still running is killed and
\* waited on; try_wait reaps a child that has exited.
DropSession(s) ==
    IF s.child \in {"running", "stdout_closed"}
        THEN [s EXCEPT !.child = "reaped", !.killed = TRUE]
        ELSE [s EXCEPT !.child = "reaped"]

\* The session goes out of scope when fetch_codex_entry_via_rpc returns.
RpcDrop ==
    /\ pc = "rpc_drop"
    /\ session' = DropSession(session)
    /\ req' = NoReq
    /\ message' = NoLine
    /\ account' = None
    /\ linesRead' = 0
    /\ pc' = "codex_after_rpc"
    /\ UNCHANGED << args, providers, idx, entries, result, rpcOutcome, live, reqOutcome,
                    sent, run, token, spawnLog, orphans, consulted, stored, operand, converted >>

-----------------------------------------------------------------------------
(* run_command_with_timeout_and_input                                      *)

RunPcs == {"run_write", "run_poll", "run_sleep"}

\* What the /status text holds once cleaned: the "% left" number of the first
\* "5h limit" line and of the first "weekly limit" line, and the first credits number.
StatusOut(five, weekly, credits) ==
    [t |-> "status", five |-> five, weekly |-> weekly, credits |-> credits]

StdoutText(o) == IF o.t = "text" THEN o.s ELSE << >>

\* What a child of each call can write to its stdout and stderr.
Outputs(caller) ==
    CASE caller = "status" ->
            { StatusOut(Some(72), Some(39), None), StatusOut(None, None, Some(5)),
              StatusOut(Some(130), None, None), StatusOut(None, None, None) }
      [] caller = "secret-tool" -> { TextOut(<< "s", "\n" >>), TextOut(<< " ", "\n" >>) }
      [] caller \in {"kwallet1", "kwallet2"} -> { TextOut(<< " ", "k", "\n" >>) }
      [] caller = "curl" ->
            { TextOut(<< "J", "\n", "2", "0", "0" >>), TextOut(<< "J", "\n", "5", "0", "0" >>),
              TextOut(<< "R", "\n", "2", "0", "0", "\n" >>), TextOut(<< "N", "\n", "2", "0", "0" >>),
              TextOut(<< "J" >>), TextOut(<< "X", "\n", "2", "0", "0" >>),
              TextOut(<< "J", "\n", "2", "x" >>) }
      [] OTHER -> {}

\* The command line of each call.
CommandLine(caller) ==
    CASE caller = "status" -> "codex /status"
      [] caller = "secret-tool" -> "secret-tool lookup"
      [] caller = "kwallet1" -> "kwallet-query kdewallet"
      [] caller = "kwallet2" -> "kwallet-query kdewallet5"
      [] caller = "store-secret-tool" -> "secret-tool store"
      [] caller = "store-kwallet1" -> "kwallet-query -w kdewallet"
      [] caller = "store-kwallet2" -> "kwallet-query -w kdewallet5"
      [] OTHER -> "curl"

Call(caller, hasInput) == [NoRun EXCEPT !.caller = caller, !.hasInput = hasInput]

\* Lines 788-797: `command.spawn()?`
RunSpawn ==
    /\ pc = "run_spawn"
    /\ spawnLog' = Append(spawnLog, CommandLine(run.caller))
    /\ \E outcome \in SpawnOutcomes :
          IF outcome = "spawned"
             THEN /\ run' = [run EXCEPT !.child = "running"]
                  /\ pc' = IF run.hasInput THEN "run_write" ELSE "run_poll"
             ELSE /\ run' = [run EXCEPT !.result = Err([kind |-> outcome])]
                  /\ pc' = "run_ret"
    /\ UNCHANGED << args, providers, idx, entries, result, rpcOutcome, live, session,
                    req, reqOutcome, message, linesRead, sent, account, token, orphans,
                    consulted, stored, operand, converted >>

\* The child writes its output.
RunChildWrite ==
    /\ pc \in RunPcs
    /\ run.child = "running"
    /\ run.stdout = Empty
    /\ \E o \in Outputs(run.caller) : run' = [run EXCEPT !.stdout = o]
    /\ UNCHANGED << pc, args, providers, idx, entries, result, rpcOutcome, live, session,
                    req, reqOutcome, message, linesRead, sent, account, token,
                    spawnLog, orphans, consulted, stored, operand, converted >>

\* The child exits on its own, with a zero or a non-zero status.
RunChildExit ==
    /\ pc \in RunPcs
    /\ run.child = "running"
    /\ \E ok \in BOOLEAN : run' = [run EXCEPT !.child = "exited", !.exitOk = ok]
    /\ UNCHANGED << pc, args, providers, idx, entries, result, rpcOutcome, live, session,
                    req, reqOutcome, message, linesRead, sent, account, token,
                    spawnLog, orphans, consulted, stored, operand, converted >>

\* Lines 798-803: `stdin.write_all(..)?; stdin.flush()?`.  The write fails when the
\* child has exited or closed its stdin; the `?` returns the error and drops the
\* Child handle, which neither kills nor waits.
RunWrite ==
    /\ pc = "run_write"
    /\ \/ /\ run.child = "running"
          /\ pc' = "run_poll"
          /\ UNCHANGED << run, orphans, consulted, stored, operand, converted >>
       \/ /\ run' = [run EXCEPT !.result = Err([kind |-> "BrokenPipe"])]
          /\ orphans' = orphans + 1
          /\ pc' = "run_ret"
    /\ UNCHANGED << args, providers, idx, entries, result, rpcOutcome, live, session,
                    req, reqOutcome, message, linesRead, sent, account, token, spawnLog,
                    consulted, stored, operand, converted >>

\* Time passes: Instant::now() reaches the deadline of line 805.
Tick ==
    /\ pc \in {"run_poll", "run_sleep"}
    /\ ~run.deadlinePassed
    /\ run' = [run EXCEPT !.deadlinePassed = TRUE,
                          !.aliveAtDeadline = (run.child = "running")]
    /\ UNCHANGED << pc, args, providers, idx, entries, result, rpcOutcome, live, session,
                    req, reqOutcome, message, linesRead, sent, account, token,
                    spawnLog, orphans, consulted, stored, operand, converted >>

\* Lines 807-809: try_wait found the child exited (and reaped it): wait_with_output.
Collect(r) ==
    [r EXCEPT !.child = "reaped",
              !.result = Ok([success |-> r.exitOk, stdout |-> r.stdout])]

\* A variant of OnDeadline that returns the error without kill and wait.
OnDeadline_NoKill(r) == [r EXCEPT !.result = Err([kind |-> "TimedOut"])]

\* Lines 811-818: the deadline has passed: kill, wait, Err(TimedOut).
OnDeadline(r) ==
    [r EXCEPT !.child = "reaped", !.killed = TRUE, !.result = Err([kind |-> "TimedOut"])]

\* One iteration of the loop of lines 806-821, up to the sleep.
RunPoll ==
    /\ pc = "run_poll"
    /\ IF run.child = "exited"
          THEN /\ run' = Collect(run)
               /\ pc' = "run_ret"
          ELSE IF run.deadlinePassed
                  THEN /\ run' = OnDeadline(run)
                       /\ pc' = "run_ret"
                  ELSE /\ pc' = "run_sleep"
                       /\ UNCHANGED run
    /\ UNCHANGED << args, providers, idx, entries, result, rpcOutcome, live, session,
                    req, reqOutcome, message, linesRead, sent, account, token,
                    spawnLog, orphans, consulted, stored, operand, converted >>

\* Line 820: the sleep of 100 ms is over.
RunSleep ==
    /\ pc = "run_sleep"
    /\ pc' = "run_poll"
    /\ UNCHANGED << args, providers, idx, entries, result, rpcOutcome, live, session,
                    req, reqOutcome, message, linesRead, sent, account, run, token,
                    spawnLog, orphans, consulted, stored, operand, converted >>

-----------------------------------------------------------------------------
(* fetch_codex_entry and fetch_codex_entry_via_status                      *)

\* f64::clamp(0.0, 100.0)
Clamp(x) == IF x < 0 THEN 0 ELSE IF x > 100 THEN 100 ELSE x

\* A variant of StatusEntry without the check of lines 408-410.
StatusEntry_AlwaysEntry(a, out) ==
    LET five_left == IF out.t = "status" /\ IsSome(out.five)
                        THEN Some(Clamp(100 - out.five.v)) ELSE None
        weekly_left == IF out.t = "status" /\ IsSome(out.weekly)
                          THEN Some(Clamp(100 - out.weekly.v)) ELSE None
        credits_remaining == IF out.t = "status" THEN out.credits ELSE None
        primary == IF IsSome(five_left)
                      THEN Some([used_percent |-> Some(five_left.v)]) ELSE None
        secondary == IF IsSome(weekly_left)
                        THEN Some([used_percent |-> Some(weekly_left.v)]) ELSE None
    IN  Some(build_codex_entry(a, primary, secondary, credits_remaining,
                               None, S_codex_status))

\* fetch_codex_entry_via_status, lines 398-430, on the cleaned text.
StatusEntry(a, out) ==
    LET five_left == IF out.t = "status" /\ IsSome(out.five)
                        THEN Some(Clamp(100 - out.five.v)) ELSE None
        weekly_left == IF out.t = "status" /\ IsSome(out.weekly)
                          THEN Some(Clamp(100 - out.weekly.v)) ELSE None
        credits_remaining == IF out.t = "status" THEN out.credits ELSE None
        primary == IF IsSome(five_left)
                      THEN Some([used_percent |-> Some(five_left.v)]) ELSE None
        secondary == IF IsSome(weekly_left)
                        THEN Some([used_percent |-> Some(weekly_left.v)]) ELSE None
    IN  IF IsNone(five_left) /\ IsNone(weekly_left) /\ IsNone(credits_remaining)
           THEN None
           ELSE Some(build_codex_entry(a, primary, secondary, credits_remaining,
                                       None, S_codex_status))

\* A variant of StatusOutcome for which a run that timed out is an error.
StatusOutcome_TimeoutIsError(a, r) ==
    IF IsErr(r)
       THEN IF r.e.kind = "NotFound" THEN Ok(None) ELSE r
       ELSE Ok(StatusEntry(a, r.v.stdout))

\* fetch_codex_entry_via_status, lines 377-387 and 423-430: the value returned for
\* the result of the runner.
StatusOutcome(a, r) ==
    IF IsErr(r)
       THEN IF r.e.kind \in {"NotFound", "TimedOut"} THEN Ok(None) ELSE r
       ELSE Ok(StatusEntry(a, r.v.stdout))

\* A variant of CodexAfterRpc that returns the error of the RPC strategy (`?`).
CodexAfterRpc_Propagate ==
    /\ pc = "codex_after_rpc"
    /\ IF IsOk(rpcOutcome) /\ IsNone(rpcOutcome.v)
          THEN /\ run' = Call("status", TRUE)
               /\ pc' = "run_spawn"
               /\ UNCHANGED live
          ELSE /\ live' = rpcOutcome
               /\ pc' = "sel_handle"
               /\ UNCHANGED run
    /\ session' = NoSession
    /\ sent' = << >>
    /\ UNCHANGED << args, providers, idx, entries, result, rpcOutcome, req,
                    reqOutcome, message, linesRead, account, token,
                    spawnLog, orphans, consulted, stored, operand, converted >>

\* fetch_codex_entry, lines 319-327: an entry of the RPC strategy is returned; on
\* Ok(None) or Err the /status strategy runs.  The frame of
\* fetch_codex_entry_via_rpc, with the dropped session, is gone.
CodexAfterRpc ==
    /\ pc = "codex_after_rpc"
    /\ IF IsOk(rpcOutcome) /\ IsSome(rpcOutcome.v)
          THEN /\ live' = rpcOutcome
               /\ pc' = "sel_handle"
               /\ UNCHANGED run
          ELSE /\ run' = Call("status", TRUE)
               /\ pc' = "run_spawn"
               /\ UNCHANGED live
    /\ session' = NoSession
    /\ sent' = << >>
    /\ UNCHANGED << args, providers, idx, entries, result, rpcOutcome, req,
                    reqOutcome, message, linesRead, account, token,
                    spawnLog, orphans, consulted, stored, operand, converted >>

\* fetch_codex_entry_via_status returns; so do fetch_codex_entry and fetch_live_entry.
StatusRet ==
    /\ pc = "run_ret"
    /\ run.caller = "status"
    /\ live' = StatusOutcome(args, run.result)
    /\ run' = NoRun
    /\ pc' = "sel_handle"
    /\ UNCHANGED << args, providers, idx, entries, result, rpcOutcome, session, req,
                    reqOutcome, message, linesRead, sent, account, token,
                    spawnLog, orphans, consulted, stored, operand, converted >>

-----------------------------------------------------------------------------
(* fetch_claude_entry: the access token                                    *)

\* The values of CODEXBAR_CLAUDE_OAUTH_TOKEN and of CLAUDE_OAUTH_TOKEN.
EnvValues1 == { None, Some(<< " " >>), Some(<< " ", "e" >>) }
EnvValues2 == { None, Some(<< "f", " " >>) }

\* first_env_value
first_env_value(values) ==
    LET found == {i \in 1..Len(values) : IsSome(values[i]) /\ Trim(values[i].v) # << >>}
    IN  IF found = {} THEN None
        ELSE Some(Trim(values[CHOOSE i \in found : \A j \in found : i <= j].v))

\* A variant of LookupValue that returns the output as printed.
LookupValue_NoTrim(r) ==
    IF IsErr(r) THEN None
    ELSE IF ~r.v.success THEN None
    ELSE IF StdoutText(r.v.stdout) = << >> THEN None
    ELSE Some(StdoutText(r.v.stdout))

\* lookup_claude_secret_via_secret_tool, lines 560-570, and the body of the loop of
\* lookup_claude_secret_via_kwallet, lines 618-630: the value of one lookup.
LookupValue(r) ==
    IF IsErr(r) THEN None
    ELSE IF ~r.v.success THEN None
    ELSE IF Trim(StdoutText(r.v.stdout)) = << >> THEN None
    ELSE Some(Trim(StdoutText(r.v.stdout)))

\* ~/.claude/.credentials.json
FileContents ==
    { [t |-> "unreadable"], [t |-> "notjson"], [t |-> "nofield"],
      [t |-> "token", s |-> << " " >>], [t |-> "token", s |-> << "c", "\n" >>] }

\* load_claude_oauth_access_token_from_credentials_file
load_from_credentials_file(f) ==
    IF f.t # "token" THEN None
    ELSE IF Trim(f.s) = << >> THEN None
    ELSE Some(Trim(f.s))

\* What a lookup command printed, when it ran and exited with status zero.
LookupOutput(r) ==
    IF IsOk(r) /\ r.v.success THEN Some(StdoutText(r.v.stdout)) ELSE None

\* The string at claudeAiOauth.accessToken, when the file has one.
FileToken(f) == IF f.t = "token" THEN Some(f.s) ELSE None

\* One source read by resolve_claude_oauth_access_token and what was found there.
Read(source, found) == [source |-> source, found |-> found]

\* The call that uses the token: the HTTP fetch of fetch_claude_entry, line 478, or
\* store_claude_secret in run_claude_auth, line 107.
AfterToken(a) ==
    IF a.command = "auth" THEN Call("store-secret-tool", TRUE) ELSE Call("curl", FALSE)

\* resolve_claude_oauth_access_token, line 507: the environment; find_map stops at
\* the first variable that yields a value.
ClaudeEnv ==
    /\ pc = "claude_env"
    /\ \E v1 \in EnvValues1, v2 \in EnvValues2 :
          LET t == first_env_value(<< v1, v2 >>)
          IN  /\ consulted' = IF IsSome(first_env_value(<< v1 >>))
                                 THEN << Read("env1", v1) >>
                                 ELSE << Read("env1", v1), Read("env2", v2) >>
              /\ IF IsSome(t)
                    THEN /\ token' = t
                         /\ pc' = "claude_token"
                         /\ UNCHANGED run
                    ELSE /\ run' = Call("secret-tool", FALSE)
                         /\ pc' = "run_spawn"
                         /\ UNCHANGED token
    /\ UNCHANGED << args, providers, idx, entries, result, rpcOutcome, live, session,
                    req, reqOutcome, message, linesRead, sent, account,
                    spawnLog, orphans, stored, operand, converted >>

\* lookup_claude_secret, line 553: secret-tool first, then kwallet.
SecretToolRet ==
    /\ pc = "run_ret"
    /\ run.caller = "secret-tool"
    /\ consulted' = Append(consulted, Read("secret-tool", LookupOutput(run.result)))
    /\ LET t == LookupValue(run.result)
       IN  IF IsSome(t)
              THEN /\ token' = t
                   /\ run' = NoRun
                   /\ pc' = "claude_token"
              ELSE /\ run' = Call("kwallet1", FALSE)
                   /\ pc' = "run_spawn"
                   /\ UNCHANGED token
    /\ UNCHANGED << args, providers, idx, entries, result, rpcOutcome, live, session,
                    req, reqOutcome, message, linesRead, sent, account,
                    spawnLog, orphans, stored, operand, converted >>

\* lookup_claude_secret_via_kwallet: the wallets kdewallet, then kdewallet5; after
\* both, resolve_claude_oauth_access_token goes on to the credentials file.
KWalletRet ==
    /\ pc = "run_ret"
    /\ run.caller \in {"kwallet1", "kwallet2"}
    /\ consulted' = Append(consulted, Read(run.caller, LookupOutput(run.result)))
    /\ LET t == LookupValue(run.result)
       IN  IF IsSome(t)
              THEN /\ token' = t
                   /\ run' = NoRun
                   /\ pc' = "claude_token"
              ELSE IF run.caller = "kwallet1"
                      THEN /\ run' = Call("kwallet2", FALSE)
                           /\ pc' = "run_spawn"
                           /\ UNCHANGED token
                      ELSE /\ run' = NoRun
                           /\ pc' = "claude_file"
                           /\ UNCHANGED token
    /\ UNCHANGED << args, providers, idx, entries, result, rpcOutcome, live, session,
                    req, reqOutcome, message, linesRead, sent, account,
                    spawnLog, orphans, stored, operand, converted >>

\* resolve_claude_oauth_access_token, line 509: the credentials file, the last
\* source.
ClaudeFile ==
    /\ pc = "claude_file"
    /\ \E f \in FileContents :
          /\ consulted' = Append(consulted, Read("file", FileToken(f)))
          /\ token' = load_from_credentials_file(f)
    /\ pc' = "claude_token"
    /\ UNCHANGED << args, providers, idx, entries, result, rpcOutcome, live, session,
                    req, reqOutcome, message, linesRead, sent, account, run,
                    spawnLog, orphans, stored, operand, converted >>

\* The caller of the resolution has its value: fetch_claude_entry, lines 472-478,
\* returns Ok(None) without a token and starts the HTTP fetch with one;
\* run_claude_auth, lines 104-117, stores the token if there is one.
ClaudeToken ==
    /\ pc = "claude_token"
    /\ consulted' = << >>
    /\ IF IsSome(token)
          THEN /\ run' = AfterToken(args)
               /\ pc' = "run_spawn"
               /\ UNCHANGED << live, result >>
          ELSE IF args.command = "auth"
                  THEN /\ result' = Ok([t |-> "unit"])
                       /\ pc' = "auth_done"
                       /\ UNCHANGED << run, live >>
                  ELSE /\ live' = Ok(None)
                       /\ pc' = "sel_handle"
                       /\ UNCHANGED << run, result >>
    /\ UNCHANGED << args, providers, idx, entries, rpcOutcome, session,
                    req, reqOutcome, message, linesRead, sent, account, token,
                    spawnLog, orphans, stored, operand, converted >>

-----------------------------------------------------------------------------
(* fetch_claude_entry: the HTTP fetch                                      *)

Digits == << "0", "1", "2", "3", "4", "5", "6", "7", "8", "9" >>
IsDigit(c) == \E i \in 1..Len(Digits) : Digits[i] = c
DigitValue(c) == (CHOOSE i \in 1..Len(Digits) : Digits[i] = c) - 1

RECURSIVE DecimalValue(_)
DecimalValue(s) ==
    IF s = << >> THEN 0
    ELSE 10 * DecimalValue(SubSeq(s, 1, Len(s) - 1)) + DigitValue(s[Len(s)])

\* str::parse::<u16>: an optional '+', then digits only, at most 65535.
ParseU16(s) ==
    LET digits == IF s # << >> /\ s[1] = "+" THEN Tail(s) ELSE s
    IN  IF digits = << >> \/ \E i \in 1..Len(digits) : ~IsDigit(digits[i]) THEN None
        ELSE IF Len(digits) > 5 \/ DecimalValue(digits) > 65535 THEN None
        ELSE Some(DecimalValue(digits))

\* str::trim_end_matches(['\r', '\n'])
RECURSIVE TrimEndNewlines(_)
TrimEndNewlines(s) ==
    IF s # << >> /\ s[Len(s)] \in {"\r", "\n"}
        THEN TrimEndNewlines(SubSeq(s, 1, Len(s) - 1))
        ELSE s

\* split_curl_body_and_status
split_curl_body_and_status(output) ==
    LET trimmed == TrimEndNewlines(output)
        breaks == {i \in 1..Len(trimmed) : trimmed[i] = "\n"}
    IN  IF breaks = {} THEN None
        ELSE LET last == CHOOSE i \in breaks : \A j \in breaks : i >= j
                 body == SubSeq(trimmed, 1, last - 1)
                 status_code == ParseU16(Trim(SubSeq(trimmed, last + 1, Len(trimmed))))
             IN  IF IsNone(status_code) THEN None
                 ELSE Some([body |-> body, status_code |-> status_code.v])

\* serde_json::from_str on the bodies the model draws: "J" is a usage object with
\* windows, "R" one whose only window has no utilization, "N" an object without
\* windows; anything else is no JSON.
UsageWindow(utilization, resets_at) ==
    [utilization |-> utilization, resets_at |-> resets_at]

ParseUsageJson(body) ==
    IF body = << "J" >>
        THEN Some([five_hour |-> Some(UsageWindow(Some(40), Some("unix:1"))),
                   seven_day |-> Some(UsageWindow(Some(120), None)),
                   seven_day_sonnet |-> None,
                   seven_day_opus |-> Some(UsageWindow(Some(-5), None))])
    ELSE IF body = << "R" >>
        THEN Some([five_hour |-> Some(UsageWindow(None, Some("unix:1"))),
                   seven_day |-> Some(UsageWindow(None, None)),
                   seven_day_sonnet |-> None, seven_day_opus |-> None])
    ELSE IF body = << "N" >>
        THEN Some([five_hour |-> None, seven_day |-> None,
                   seven_day_sonnet |-> None, seven_day_opus |-> None])
    ELSE None

\* rate_window_from_claude_json, given value.get(key)
rate_window_from_claude_json(window) ==
    IF IsNone(window) THEN None
    ELSE LET used_percent == IF IsSome(window.v.utilization)
                                THEN Some(Clamp(window.v.utilization.v)) ELSE None
             resets_at == window.v.resets_at
         IN  IF IsNone(used_percent) /\ IsNone(resets_at) THEN None
             ELSE Some([used_percent |-> used_percent, resets_at |-> resets_at])

\* A variant of claude_entry_from_usage_json that always takes the strategy's label.
claude_entry_from_usage_json_OwnLabel(raw_json, a, source_label) ==
    LET value == ParseUsageJson(raw_json)
    IN  IF IsNone(value) THEN None
        ELSE LET primary == rate_window_from_claude_json(value.v.five_hour)
                 secondary == rate_window_from_claude_json(value.v.seven_day)
                 sonnet == rate_window_from_claude_json(value.v.seven_day_sonnet)
                 tertiary == IF IsSome(sonnet) THEN sonnet
                             ELSE rate_window_from_claude_json(value.v.seven_day_opus)
             IN  IF IsNone(primary) /\ IsNone(secondary) /\ IsNone(tertiary) THEN None
                 ELSE Some([ provider |-> S_claude,
                             source |-> Some(source_label),
                             primary |-> primary, secondary |-> secondary,
                             tertiary |-> tertiary, credits_remaining |-> None,
                             identity |-> Some([login_method |-> "oauth"]) ])

\* claude_entry_from_usage_json
claude_entry_from_usage_json(raw_json, a, source_label) ==
    LET value == ParseUsageJson(raw_json)
    IN  IF IsNone(value) THEN None
        ELSE LET primary == rate_window_from_claude_json(value.v.five_hour)
                 secondary == rate_window_from_claude_json(value.v.seven_day)
                 sonnet == rate_window_from_claude_json(value.v.seven_day_sonnet)
                 tertiary == IF IsSome(sonnet) THEN sonnet
                             ELSE rate_window_from_claude_json(value.v.seven_day_opus)
             IN  IF IsNone(primary) /\ IsNone(secondary) /\ IsNone(tertiary) THEN None
                 ELSE Some([ provider |-> S_claude,
                             source |-> Some(IF EqIgnoreAsciiCase(a.source, S_auto)
                                                THEN source_label ELSE a.source),
                             primary |-> primary, secondary |-> secondary,
                             tertiary |-> tertiary, credits_remaining |-> None,
                             identity |-> Some([login_method |-> "oauth"]) ])

\* A variant of ClaudeOutcome that reads the body whatever the status code.
ClaudeOutcome_AnyStatus(a, r) ==
    IF IsErr(r)
       THEN IF r.e.kind \in {"NotFound", "TimedOut"} THEN Ok(None) ELSE r
       ELSE LET parts == split_curl_body_and_status(StdoutText(r.v.stdout))
            IN  IF IsNone(parts) THEN Ok(None)
                ELSE Ok(claude_entry_from_usage_json(parts.v.body, a, S_claude_oauth_api))

\* cli_payload, lines 175-179: the "source" member of the JSON payload of an entry.
cli_payload_source(entry, a) ==
    IF EqIgnoreAsciiCase(a.source, S_auto)
        THEN IF IsSome(entry.source) THEN entry.source.v ELSE << "r", "u", "s", "t" >>
        ELSE a.source

\* fetch_claude_entry, lines 477-494: the value returned for the result of curl.
ClaudeOutcome(a, r) ==
    IF IsErr(r)
       THEN IF r.e.kind \in {"NotFound", "TimedOut"} THEN Ok(None) ELSE r
       ELSE LET parts == split_curl_body_and_status(StdoutText(r.v.stdout))
            IN  IF IsNone(parts) THEN Ok(None)
                ELSE IF parts.v.status_code # 200 THEN Ok(None)
                ELSE Ok(claude_entry_from_usage_json(parts.v.body, a, S_claude_oauth_api))

CurlRet ==
    /\ pc = "run_ret"
    /\ run.caller = "curl"
    /\ live' = ClaudeOutcome(args, run.result)
    /\ run' = NoRun
    /\ token' = None
    /\ pc' = "sel_handle"
    /\ UNCHANGED << args, providers, idx, entries, result, rpcOutcome, session, req,
                    reqOutcome, message, linesRead, sent, account, spawnLog, orphans,
                    consulted, stored, operand, converted >>

-----------------------------------------------------------------------------
(* run_auth, run_claude_auth and store_claude_secret                       *)

\* run_auth and run_claude_auth, lines 86-102: only claude is supported;
\* `claude auth login` runs to its end, and a failed launch or a non-zero status is
\* the error of the command.
AuthStart ==
    /\ pc = "auth_start"
    /\ IF ToAsciiLowercase(Trim(args.provider)) = S_claude
          THEN /\ spawnLog' = Append(spawnLog, "claude auth login")
               /\ \E status \in {"launch failed", "non-zero", "success"} :
                     IF status = "success"
                        THEN /\ pc' = "auth_file"
                             /\ UNCHANGED result
                        ELSE /\ result' = Err([kind |-> "Login"])
                             /\ pc' = "auth_done"
          ELSE /\ result' = Err([kind |-> "UnsupportedProvider"])
               /\ pc' = "auth_done"
               /\ UNCHANGED spawnLog
    /\ UNCHANGED << args, providers, idx, entries, rpcOutcome, live, session, req,
                    reqOutcome, message, linesRead, sent, account, run, token,
                    orphans, consulted, stored, operand, converted >>

\* run_claude_auth, lines 104-105: the credentials file first, then
\* resolve_claude_oauth_access_token.
AuthFile ==
    /\ pc = "auth_file"
    /\ \E f \in FileContents :
          LET t == load_from_credentials_file(f)
          IN  IF IsSome(t)
                 THEN /\ token' = t
                      /\ pc' = "claude_token"
                 ELSE /\ pc' = "claude_env"
                      /\ UNCHANGED token
    /\ UNCHANGED << args, providers, idx, entries, result, rpcOutcome, live, session,
                    req, reqOutcome, message, linesRead, sent, account, run,
                    spawnLog, orphans, consulted, stored, operand, converted >>

\* A variant of StoreAccepted that takes any exit of the command for a success.
StoreAccepted_AnyExit(r) == IsOk(r)

\* store_claude_secret_via_secret_tool, lines 594-611, and the body of the loop of
\* store_claude_secret_via_kwallet, lines 644-659: the backend took the secret iff
\* the command ran and exited with status zero.
StoreAccepted(r) == IsOk(r) /\ r.v.success

\* One backend tried by store_claude_secret and what the runner returned for it.
Attempt(backend, r) == [backend |-> backend, result |-> r]

\* store_claude_secret, lines 574-576: secret-tool first; run_claude_auth only
\* warns when the store failed (lines 107-117).
StoreSecretToolRet ==
    /\ pc = "run_ret"
    /\ run.caller = "store-secret-tool"
    /\ IF StoreAccepted(run.result)
          THEN /\ stored' = [value |-> Ok([t |-> "unit"]),
                             attempts |-> Append(stored.attempts,
                                                 Attempt(run.caller, run.result))]
               /\ result' = Ok([t |-> "unit"])
               /\ run' = NoRun
               /\ pc' = "auth_done"
          ELSE /\ stored' = [stored EXCEPT
                                !.attempts = Append(@, Attempt(run.caller, run.result))]
               /\ run' = Call("store-kwallet1", TRUE)
               /\ pc' = "run_spawn"
               /\ UNCHANGED result
    /\ UNCHANGED << args, providers, idx, entries, rpcOutcome, live, session, req,
                    reqOutcome, message, linesRead, sent, account, token,
                    spawnLog, orphans, consulted, operand, converted >>

\* store_claude_secret_via_kwallet: the wallets kdewallet, then kdewallet5; after
\* both, store_claude_secret fails (lines 578-584).
StoreKWalletRet ==
    /\ pc = "run_ret"
    /\ run.caller \in {"store-kwallet1", "store-kwallet2"}
    /\ IF StoreAccepted(run.result)
          THEN /\ stored' = [value |-> Ok([t |-> "unit"]),
                             attempts |-> Append(stored.attempts,
                                                 Attempt(run.caller, run.result))]
               /\ result' = Ok([t |-> "unit"])
               /\ run' = NoRun
               /\ pc' = "auth_done"
          ELSE IF run.caller = "store-kwallet1"
                  THEN /\ stored' = [stored EXCEPT
                                       !.attempts = Append(@, Attempt(run.caller,
                                                                      run.result))]
                       /\ run' = Call("store-kwallet2", TRUE)
                       /\ pc' = "run_spawn"
                       /\ UNCHANGED result
                  ELSE /\ stored' = [value |-> Err([kind |-> "CredentialStoreUnavailable"]),
                                     attempts |-> Append(stored.attempts,
                                                         Attempt(run.caller, run.result))]
                       /\ result' = Ok([t |-> "unit"])
                       /\ run' = NoRun
                       /\ pc' = "auth_done"
    /\ UNCHANGED << args, providers, idx, entries, rpcOutcome, live, session, req,
                    reqOutcome, message, linesRead, sent, account, token,
                    spawnLog, orphans, consulted, operand, converted >>

-----------------------------------------------------------------------------
(* The invocation.                                                         *)

\* The steps of the program that need nothing from a child but what it has
\* already done.
ProgramStep ==
    \/ SelStart \/ SelNext \/ HandleLive \/ SelReturn
    \/ RpcStart \/ ReqSend \/ ReqReadEof \/ InitializeRet \/ RpcNotify
    \/ AccountRet \/ RateLimitsRet \/ RpcDrop
    \/ CodexAfterRpc \/ StatusRet
    \/ RunSpawn \/ RunWrite \/ RunPoll \/ RunSleep
    \/ ClaudeEnv \/ SecretToolRet \/ KWalletRet \/ ClaudeFile \/ ClaudeToken
    \/ CurlRet
    \/ AuthStart \/ AuthFile \/ StoreSecretToolRet \/ StoreKWalletRet

\* The steps of the children and of the clock; ReqRead is the step of the program
\* that needs the child to have written a line.
Environment ==
    \/ SessionChildClose \/ SessionChildExit \/ ReqRead
    \/ RunChildWrite \/ RunChildExit \/ Tick

Next == ProgramStep \/ Environment

Spec == Init /\ [][Next]_vars

\* The program is scheduled whenever it can take a step, and time passes.  Nothing
\* obliges a child to write a line or to exit.
SpecFair == Spec /\ WF_vars(ProgramStep) /\ WF_vars(Tick)

-----------------------------------------------------------------------------
(* Text of a child: bytes.                                                 *)
(*                                                                         *)
(* An ASCII byte is the one-character string of its character.  ESC is the *)
(* byte 0x1B.  A byte above 0x7F is the string of its two hexadecimal      *)
(* digits; a text is valid UTF-8, so these come in the pairs that encode   *)
(* one character ("C3","A9" is U+00E9).                                    *)

ESC == "<ESC>"

\* line 846, `output.push(bytes[index] as char)`: the byte b becomes the character
\* U+00b, which String::push writes as UTF-8: itself below 0x80, 0xC2 b for
\* 0x80..0xBF, 0xC3 (b - 0x40) for 0xC0..0xFF.
PushAsChar(b) ==
    CASE b \in {"82", "83", "A9"} -> << "C2", b >>
      [] b = "C2" -> << "C3", "82" >>
      [] b = "C3" -> << "C3", "83" >>
      [] OTHER -> << b >>

\* line 837, `(0x40..=0x7E).contains(&byte)`: '@', the letters, and the punctuation
\* between and after them (the grave accent, 0x60, is one too; no text of the model
\* holds it).
IsFinalByte(b) ==
    \/ \E i \in 1..Len(UpperCase) : UpperCase[i] = b \/ LowerCase[i] = b
    \/ b \in {"@", "[", "\\", "]", "^", "_", "{", "|", "}", "~"}

\* strip_ansi_sequences, lines 834-840: the inner loop, from `index` (1-based) to the
\* index after the first final byte, or past the end.
RECURSIVE AfterFinalByte(_, _)
AfterFinalByte(bytes, index) ==
    IF index > Len(bytes) THEN index
    ELSE IF IsFinalByte(bytes[index]) THEN index + 1
    ELSE AfterFinalByte(bytes, index + 1)

\* strip_ansi_sequences, lines 829-848: the outer loop from `index`.
RECURSIVE StripFrom(_, _)
StripFrom(bytes, index) ==
    IF index > Len(bytes) THEN << >>
    ELSE IF bytes[index] = ESC
        THEN IF index + 1 <= Len(bytes) /\ bytes[index + 1] = "["
                THEN StripFrom(bytes, AfterFinalByte(bytes, index + 2))
                ELSE StripFrom(bytes, index + 1)
        ELSE PushAsChar(bytes[index]) \o StripFrom(bytes, index + 1)

\* strip_ansi_sequences
strip_ansi_sequences(text) == StripFrom(text, 1)

\* str::contains
Contains(s, needle) ==
    \E i \in 0..(Len(s) - Len(needle)) : SubSeq(s, i + 1, i + Len(needle)) = needle

\* str::find(char): the 1-based index of the first occurrence, 0 when there is none.
Find(s, c) ==
    IF \E i \in 1..Len(s) : s[i] = c
        THEN CHOOSE i \in 1..Len(s) : s[i] = c /\ \A j \in 1..(i - 1) : s[j] # c
        ELSE 0

\* str::lines: the text is cut after each "\n"; a line loses its "\n" and then a
\* "\r" that stood before it; nothing follows the last "\n".
RECURSIVE StrLines(_)
StrLines(s) ==
    IF s = << >> THEN << >>
    ELSE LET nl == Find(s, "\n")
             line == SubSeq(s, 1, nl - 1)
         IN  IF nl = 0 THEN << s >>
             ELSE << IF line # << >> /\ line[Len(line)] = "\r"
                        THEN SubSeq(line, 1, Len(line) - 1) ELSE line >>
                  \o StrLines(SubSeq(s, nl + 1, Len(s)))

-----------------------------------------------------------------------------
(* Numbers read from text.                                                 *)
(*                                                                         *)
(* An f64 read from decimal digits is the exact decimal [n, d]: n / 10^d,  *)
(* with d = 0 or n not a multiple of 10.                                   *)

Dec(n, d) == [n |-> n, d |-> d]

RECURSIVE Pow10(_)
Pow10(d) == IF d = 0 THEN 1 ELSE 10 * Pow10(d - 1)

RECURSIVE Normal(_)
Normal(x) == IF x.d > 0 /\ x.n % 10 = 0 THEN Normal(Dec(x.n \div 10, x.d - 1)) ELSE x

\* str::replace(c, ""): s without its characters c.
RECURSIVE Without(_, _)
Without(s, c) ==
    IF s = << >> THEN << >>
    ELSE (IF Head(s) = c THEN << >> ELSE << Head(s) >>) \o Without(Tail(s), c)

\* str::parse::<f64> of a string of digits and '.': a number when there is a digit
\* and at most one '.'.  Any other character makes it fail (signs, exponents, "inf"
\* and "nan" do not occur in what the callers cut out).
ParseF64(s) ==
    LET dot == Find(s, ".")
        digits == Without(s, ".")
    IN  IF digits = << >> \/ Len(s) - Len(digits) > 1 THEN None
        ELSE IF \E i \in 1..Len(digits) : ~IsDigit(digits[i]) THEN None
        ELSE Some(Normal(Dec(DecimalValue(digits), IF dot = 0 THEN 0 ELSE Len(s) - dot)))

\* A variant of parse_last_number that gives 0 when the input has no digit.
parse_last_number_ZeroDefault(input) ==
    LET digitAt == {i \in 1..Len(input) : IsDigit(input[i])}
    IN  IF digitAt = {} THEN Some(Dec(0, 0))
        ELSE LET last == CHOOSE i \in digitAt : \A j \in digitAt : j <= i
                 span == {i \in 1..last :
                             \A j \in i..last : IsDigit(input[j]) \/ input[j] = "."}
                 first == CHOOSE i \in span : \A j \in span : i <= j
             IN  ParseF64(SubSeq(input, first, last))

\* parse_last_number: `last` is the last digit of the input; the number starts where
\* the digits and '.' before it first.
parse_last_number(input) ==
    LET digitAt == {i \in 1..Len(input) : IsDigit(input[i])}
    IN  IF digitAt = {} THEN None
        ELSE LET last == CHOOSE i \in digitAt : \A j \in digitAt : j <= i
                 span == {i \in 1..last :
                             \A j \in i..last : IsDigit(input[j]) \/ input[j] = "."}
                 first == CHOOSE i \in span : \A j \in span : i <= j
             IN  ParseF64(SubSeq(input, first, last))

\* parse_first_number: from the first digit, the digits, '.' and ',' that follow;
\* the commas are removed before str::parse.
parse_first_number(input) ==
    LET digitAt == {i \in 1..Len(input) : IsDigit(input[i])}
    IN  IF digitAt = {} THEN None
        ELSE LET first == CHOOSE i \in digitAt : \A j \in digitAt : i <= j
                 span == {i \in first..Len(input) :
                            \A j \in first..i : IsDigit(input[j]) \/ input[j] \in {".", ","}}
                 last == CHOOSE i \in span : \A j \in span : j <= i
             IN  ParseF64(Without(SubSeq(input, first, last), ","))

-----------------------------------------------------------------------------
(* The /status text                                                        *)

S_5h_limit == << "5","h"," ","l","i","m","i","t" >>
S_weekly_limit == << "w","e","e","k","l","y"," ","l","i","m","i","t" >>
S_left == << "l","e","f","t" >>
S_credits == << "c","r","e","d","i","t","s" >>

\* first_line_containing_case_insensitive
first_line_containing_case_insensitive(text, needle) ==
    LET lines == StrLines(text)
        needle_lower == ToAsciiLowercase(needle)
        found == {i \in 1..Len(lines) : Contains(ToAsciiLowercase(lines[i]), needle_lower)}
    IN  IF found = {} THEN None
        ELSE Some(lines[CHOOSE i \in found : \A j \in found : i <= j])

\* extract_percent_left_from_line
extract_percent_left_from_line(line) ==
    LET percent_index == Find(line, "%")
    IN  IF ~Contains(ToAsciiLowercase(line), S_left) THEN None
        ELSE IF percent_index = 0 THEN None
        ELSE parse_last_number(SubSeq(line, 1, percent_index - 1))

\* A variant of CreditsOfLines that reads a line with a colon only after the colon.
RECURSIVE CreditsOfLines_TailOnly(_)
CreditsOfLines_TailOnly(lines) ==
    IF lines = << >> THEN None
    ELSE LET line == Head(lines)
             colon == Find(line, ":")
             value == IF colon # 0
                         THEN parse_first_number(SubSeq(line, colon + 1, Len(line)))
                         ELSE parse_first_number(line)
         IN  IF ~Contains(ToAsciiLowercase(line), S_credits)
                THEN CreditsOfLines_TailOnly(Tail(lines))
             ELSE IF IsSome(value) THEN value
             ELSE CreditsOfLines_TailOnly(Tail(lines))

\* extract_credits_from_status, lines 870-883: the loop over the lines.
RECURSIVE CreditsOfLines(_)
CreditsOfLines(lines) ==
    IF lines = << >> THEN None
    ELSE LET line == Head(lines)
             colon == Find(line, ":")
             of_tail == IF colon # 0
                           THEN parse_first_number(SubSeq(line, colon + 1, Len(line)))
                           ELSE None
             of_line == parse_first_number(line)
         IN  IF ~Contains(ToAsciiLowercase(line), S_credits) THEN CreditsOfLines(Tail(lines))
             ELSE IF IsSome(of_tail) THEN of_tail
             ELSE IF IsSome(of_line) THEN of_line
             ELSE CreditsOfLines(Tail(lines))

\* extract_credits_from_status
extract_credits_from_status(text) == CreditsOfLines(StrLines(text))

\* `(100.0 - x).clamp(0.0, 100.0)` (lines 401 and 405) and
\* `(100.0 - x).max(0.0).min(100.0)` (remaining_percent), on exact decimals.
HundredMinus(x) ==
    LET hundred == 100 * Pow10(x.d)
        diff == hundred - x.n
    IN  IF diff <= 0 THEN Dec(0, 0)
        ELSE IF diff >= hundred THEN Dec(100, 0)
        ELSE Dec(diff, x.d)

\* f64::clamp(0.0, 100.0), on exact decimals.
ClampDec(x) ==
    IF x.n <= 0 THEN Dec(0, 0)
    ELSE IF x.n >= 100 * Pow10(x.d) THEN Dec(100, 0)
    ELSE x

\* fetch_codex_entry_via_status, lines 396-430, on the cleaned text itself.
StatusEntryOfText(a, cleaned) ==
    LET five_line == first_line_containing_case_insensitive(cleaned, S_5h_limit)
        weekly_line == first_line_containing_case_insensitive(cleaned, S_weekly_limit)
        five_value == IF IsSome(five_line)
                         THEN extract_percent_left_from_line(five_line.v) ELSE None
        weekly_value == IF IsSome(weekly_line)
                           THEN extract_percent_left_from_line(weekly_line.v) ELSE None
        five_left == IF IsSome(five_value) THEN Some(HundredMinus(five_value.v)) ELSE None
        weekly_left == IF IsSome(weekly_value)
                          THEN Some(HundredMinus(weekly_value.v)) ELSE None
        credits_remaining == extract_credits_from_status(cleaned)
        primary == IF IsSome(five_left)
                      THEN Some([used_percent |-> Some(five_left.v)]) ELSE None
        secondary == IF IsSome(weekly_left)
                        THEN Some([used_percent |-> Some(weekly_left.v)]) ELSE None
    IN  IF IsNone(five_left) /\ IsNone(weekly_left) /\ IsNone(credits_remaining)
           THEN None
           ELSE Some(build_codex_entry(a, primary, secondary, credits_remaining,
                                       None, S_codex_status))

-----------------------------------------------------------------------------
(* The windowed search of interactive output                               *)

UsedWords ==
    { << "u","s","e","d" >>,
      << "s","p","e","n","t" >>,
      << "c","o","n","s","u","m","e","d" >> }

\* The lines after the label line that are searched.
WindowLines == 8

SessionLabels == { << "c","u","r","r","e","n","t"," ","s","e","s","s","i","o","n" >> }

\* The digits and '.' that end right before the character at percent_index.
TokenBefore(line, percent_index) ==
    LET last == percent_index - 1
        span == {i \in 1..last : \A j \in i..last : IsDigit(line[j]) \/ line[j] = "."}
    IN  IF span = {} THEN None
        ELSE ParseF64(SubSeq(line, CHOOSE i \in span : \A j \in span : i <= j, last))

\* A variant of extract_percent_windowed that converts every value as a "left" one.
extract_percent_windowed_AlwaysLeft(text, labels) ==
    LET lines == StrLines(text)
        anchors == {i \in 1..Len(lines) :
                       \E l \in labels : Contains(ToAsciiLowercase(lines[i]), l)}
        anchor == CHOOSE i \in anchors : \A j \in anchors : i <= j
        within == {i \in (anchor + 1)..(anchor + WindowLines) :
                      i <= Len(lines) /\ Find(lines[i], "%") # 0}
        line == lines[CHOOSE i \in within : \A j \in within : i <= j]
        value == TokenBefore(line, Find(line, "%"))
    IN  IF anchors = {} THEN None
        ELSE IF within = {} THEN None
        ELSE IF IsNone(value) THEN None
        ELSE Some(HundredMinus(value.v))

\* The label-anchored, windowed-search extraction: the first line that holds a label,
\* the first of the WindowLines lines after it that holds a '%', the number right
\* before that '%', as it is on a used/spent/consumed line and taken from 100
\* otherwise, within 0..100.
extract_percent_windowed(text, labels) ==
    LET lines == StrLines(text)
        anchors == {i \in 1..Len(lines) :
                       \E l \in labels : Contains(ToAsciiLowercase(lines[i]), l)}
        anchor == CHOOSE i \in anchors : \A j \in anchors : i <= j
        within == {i \in (anchor + 1)..(anchor + WindowLines) :
                      i <= Len(lines) /\ Find(lines[i], "%") # 0}
        line == lines[CHOOSE i \in within : \A j \in within : i <= j]
        value == TokenBefore(line, Find(line, "%"))
        is_used == \E w \in UsedWords :
                       Contains(ToAsciiLowercase(line), w)
    IN  IF anchors = {} THEN None
        ELSE IF within = {} THEN None
        ELSE IF IsNone(value) THEN None
        ELSE IF is_used THEN Some(ClampDec(value.v))
        ELSE Some(HundredMinus(value.v))

-----------------------------------------------------------------------------
(* codexbar-core: the windows of a payload, and what is left of a window   *)

\* A JSON value is [t |-> "null"], [t |-> "bool"], [t |-> "number", v |-> x],
\* [t |-> "string", s |-> characters], or an object: [t |-> "object", usedPercent |-> a
\* JSON value or [t |-> "absent"]].

\* codexbar-core, to_f64
to_f64(value) ==
    CASE value.t = "number" -> Some(value.v)
      [] value.t = "string" -> ParseF64(value.s)
      [] OTHER -> None

\* RateWindow::from_codexbar_cli_value
from_codexbar_cli_value(value) ==
    IF value.t = "null" THEN None
    ELSE Some([used_percent |-> IF value.t = "object" THEN to_f64(value.usedPercent)
                                                     ELSE None])

\* A variant of RateWindow_remaining_percent that takes an unknown usedPercent as 0.
RateWindow_remaining_percent_UnknownAsZero(window) ==
    IF IsNone(window.used_percent) THEN Some(HundredMinus(Dec(0, 0)))
    ELSE Some(HundredMinus(window.used_percent.v))

\* RateWindow::remaining_percent
RateWindow_remaining_percent(window) ==
    IF IsNone(window.used_percent) THEN None
    ELSE Some(HundredMinus(window.used_percent.v))

\* codexbar-cli, remaining_percent: of an optional window
remaining_percent(window) ==
    IF IsNone(window) THEN None
    ELSE IF IsNone(window.v.used_percent) THEN None
    ELSE Some(HundredMinus(window.v.used_percent.v))

-----------------------------------------------------------------------------
(* The conversions on their own.                                           *)
(*                                                                         *)
(* A behaviour of SpecConversions takes one operand (the text of a child,  *)
(* a window of a response, a window of a payload) through the functions    *)
(* that the strategies and the widget apply to it.                         *)

\* Times a text is put through strip_ansi_sequences.
MaxPasses == 2

\* Pieces a text of bytes is made of.
MaxTokens == 3

\* Lines between the label line and the line with the '%'.
MaxFiller == 8

\* The texts of at most n pieces: ESC, '[', a final byte, a parameter byte, U+00E9.
RECURSIVE TokenTexts(_)
TokenTexts(n) ==
    IF n = 0 THEN { << >> }
    ELSE LET shorter == TokenTexts(n - 1)
             tokens == { << ESC >>, << "[" >>, << "m" >>, << "1" >>, << "C3", "A9" >> }
         IN  shorter \cup {t \o k : t \in shorter, k \in tokens}

T_example == << "5","h"," ","l","i","m","i","t",":"," ","7","2","%"," ","l","e","f","t",
                "\n","w","e","e","k","l","y"," ","l","i","m","i","t",":"," ","3","9","%",
                " ","l","e","f","t","\n" >>

\* Texts of `codex /status`: a "5h limit" line made of a label, an amount and an
\* end, and what follows it.
StatusTexts ==
    LET labels == { << "5","h"," ","l","i","m","i","t",":"," " >>,
                    << "5","H"," ","L","i","m","i","t"," " >>,
                    << ESC,"[","1","m","5","h"," ","l","i","m","i","t",ESC,"[","0","m",
                       ":"," " >> }
        amounts == { << "7","2" >>,
                     << "1","3","0" >>,
                     << "7","2",".","5","0" >>,
                     << "1",".","2",".","3" >>,
                     << "n","/","a" >>,
                     << >>,
                     << "0" >> }
        ends == { << "%"," ","l","e","f","t" >>,
                  << "%"," ","L","E","F","T","\r" >>,
                  << "%" >>,
                  << " ","l","e","f","t" >>,
                  << "%"," ","u","s","e","d" >> }
        rests == { << >>,
                   << "w","e","e","k","l","y"," ","l","i","m","i","t",":"," ","3","9","%",
                      " ","l","e","f","t","\n" >>,
                   << "W","e","e","k","l","y"," ","l","i","m","i","t",":"," ","s","o","o",
                      "n","\n","w","e","e","k","l","y"," ","l","i","m","i","t",":"," ",
                      "3","9","%"," ","l","e","f","t","\n" >>,
                   << "C","r","e","d","i","t","s"," ","r","e","m","a","i","n","i","n","g",
                      ":"," ","1",",","2","3","4",".","5","\n" >>,
                   << "c","r","e","d","i","t","s",":"," ","n","o","n","e","\n" >>,
                   << "C","r","e","d","i","t","s"," ","5",":"," ","n","o","n","e","\n" >>,
                   << "C","r","e","d","i","t","s",":"," ","1",".","2",".","3","\n","c",
                      "r","e","d","i","t","s"," ","7","\n" >>,
                   << "n","o"," ","l","i","m","i","t","s"," ","y","e","t","\n" >>,
                   << "w","e","e","k","l","y"," ","l","i","m","i","t",":"," ","n","/","a",
                      "%"," ","l","e","f","t","\n" >>,
                   << "5","h"," ","l","i","m","i","t",":"," ","s","o","o","n","\n","5",
                      "h"," ","l","i","m","i","t",":"," ","7","2","%"," ","l","e","f","t",
                      "\n" >> }
    IN  {l \o a \o e \o << "\n" >> \o r :
            l \in labels, a \in amounts, e \in ends, r \in rests}
            \cup rests \cup { T_example }

RECURSIVE Filler(_)
Filler(k) == IF k = 0 THEN << >> ELSE << ".", ".", ".", "\n" >> \o Filler(k - 1)

\* Interactive output: a "Current session" line or none, lines without a '%', and a
\* last line.
SessionTexts ==
    LET label == << "C","u","r","r","e","n","t"," ","s","e","s","s","i","o","n","\n" >>
        ends == { << "U","s","a","g","e",":"," ","4","5","%"," ","u","s","e","d","\n" >>,
                  << "4","5","%"," ","l","e","f","t","\n" >>,
                  << "S","p","e","n","t",":"," ","1","3","0","%","\n" >>,
                  << "R","e","s","e","t","s"," ","5","p","m","\n" >>,
                  << "n","/","a","%"," ","u","s","e","d","\n" >> }
    IN  {label \o Filler(k) \o e : k \in 0..MaxFiller, e \in ends}
            \cup {Filler(k) \o e : k \in 0..1, e \in ends}

Operands ==
    {[kind |-> "status", text |-> t] : t \in StatusTexts \cup TokenTexts(MaxTokens)}
        \cup {[kind |-> "session", text |-> t] : t \in SessionTexts}
        \cup {[kind |-> "rpc", window |-> w] :
                w \in { None, Some(RpcWindow(None)), Some(RpcWindow(Some(0))),
                        Some(RpcWindow(Some(28))) }}
        \cup {[kind |-> "http", window |-> w] :
                w \in { None, Some(UsageWindow(None, None)),
                        Some(UsageWindow(None, Some("unix:1"))),
                        Some(UsageWindow(Some(0), None)),
                        Some(UsageWindow(Some(40), Some("unix:1"))) }}
        \cup {[kind |-> "payload", window |-> [t |-> "null"]]}
        \cup {[kind |-> "payload", window |-> [t |-> "object", usedPercent |-> u]] :
                u \in { [t |-> "absent"], [t |-> "null"], [t |-> "bool"],
                        [t |-> "string", s |-> << "3", "0" >>],
                        [t |-> "string", s |-> << "x" >>] }
                      \cup {[t |-> "number", v |-> x] :
                              x \in { Dec(30, 0), Dec(0, 0), Dec(100, 0), Dec(130, 0),
                                      Dec(0 - 5, 0), Dec(305, 1) }}}

InitConversions ==
    /\ args = [command |-> "usage", provider |-> S_codex, source |-> S_auto]
    /\ pc = "convert"
    /\ providers = << >>
    /\ idx = 0
    /\ entries = << >>
    /\ result = Pending
    /\ rpcOutcome = Pending
    /\ live = Pending
    /\ session = NoSession
    /\ req = NoReq
    /\ reqOutcome = Pending
    /\ message = NoLine
    /\ linesRead = 0
    /\ sent = << >>
    /\ account = None
    /\ run = NoRun
    /\ token = None
    /\ spawnLog = << >>
    /\ orphans = 0
    /\ consulted = << >>
    /\ stored = NotStored
    /\ operand \in Operands
    /\ converted = NotConverted

\* fetch_codex_entry_via_status, line 394: `strip_ansi_sequences(&text)`
Strip ==
    /\ pc = "convert"
    /\ operand.kind \in {"status", "session"}
    /\ converted' = [converted EXCEPT !.cleaned = strip_ansi_sequences(operand.text),
                                      !.passes = 1]
    /\ pc' = "cleaned"
    /\ UNCHANGED << args, providers, idx, entries, result, rpcOutcome, live, session,
                    req, reqOutcome, message, linesRead, sent, account, run, token,
                    spawnLog, orphans, consulted, stored, operand >>

\* strip_ansi_sequences applied to text it has returned
StripAgain ==
    /\ pc = "cleaned"
    /\ converted.passes < MaxPasses
    /\ converted' = [converted EXCEPT !.cleaned = strip_ansi_sequences(@),
                                      !.passes = @ + 1]
    /\ UNCHANGED << pc, args, providers, idx, entries, result, rpcOutcome, live,
                    session, req, reqOutcome, message, linesRead, sent, account, run,
                    token, spawnLog, orphans, consulted, stored, operand >>

\* fetch_codex_entry_via_status, lines 396-430
ExtractStatus ==
    /\ pc = "cleaned"
    /\ operand.kind = "status"
    /\ converted' = [converted EXCEPT !.value = StatusEntryOfText(args, converted.cleaned)]
    /\ pc' = "extracted"
    /\ UNCHANGED << args, providers, idx, entries, result, rpcOutcome, live, session,
                    req, reqOutcome, message, linesRead, sent, account, run, token,
                    spawnLog, orphans, consulted, stored, operand >>

\* The windowed search on the cleaned text
ExtractWindowed ==
    /\ pc = "cleaned"
    /\ operand.kind = "session"
    /\ converted' = [converted EXCEPT
                        !.value = extract_percent_windowed(converted.cleaned, SessionLabels)]
    /\ pc' = "converted"
    /\ UNCHANGED << args, providers, idx, entries, result, rpcOutcome, live, session,
                    req, reqOutcome, message, linesRead, sent, account, run, token,
                    spawnLog, orphans, consulted, stored, operand >>

\* print_text, lines 267-268: what is left of the two windows of an entry
PrintText ==
    /\ pc = "extracted"
    /\ IsSome(converted.value)
    /\ converted' = [converted EXCEPT
                        !.shown =
                            [session_left |-> remaining_percent(converted.value.v.primary),
                             weekly_left |-> remaining_percent(converted.value.v.secondary)]]
    /\ pc' = "converted"
    /\ UNCHANGED << args, providers, idx, entries, result, rpcOutcome, live, session,
                    req, reqOutcome, message, linesRead, sent, account, run, token,
                    spawnLog, orphans, consulted, stored, operand >>

\* fetch_codex_entry_via_rpc, lines 342-343: rate_window_from_codex of one window
ConvertRpc ==
    /\ pc = "convert"
    /\ operand.kind = "rpc"
    /\ converted' = [converted EXCEPT !.value = rate_window_from_codex(operand.window)]
    /\ pc' = "converted"
    /\ UNCHANGED << args, providers, idx, entries, result, rpcOutcome, live, session,
                    req, reqOutcome, message, linesRead, sent, account, run, token,
                    spawnLog, orphans, consulted, stored, operand >>

\* claude_entry_from_usage_json: rate_window_from_claude_json of one window
ConvertHttp ==
    /\ pc = "convert"
    /\ operand.kind = "http"
    /\ converted' = [converted EXCEPT !.value = rate_window_from_claude_json(operand.window)]
    /\ pc' = "converted"
    /\ UNCHANGED << args, providers, idx, entries, result, rpcOutcome, live, session,
                    req, reqOutcome, message, linesRead, sent, account, run, token,
                    spawnLog, orphans, consulted, stored, operand >>

\* codexbar-core: a window of a payload is read, and what is left of it is asked
\* (`window.remaining_percent()`, as the test maps_basic_codexbar_payload does).
ConvertPayload ==
    /\ pc = "convert"
    /\ operand.kind = "payload"
    /\ LET window == from_codexbar_cli_value(operand.window)
       IN  converted' = [converted EXCEPT
                            !.value = window,
                            !.shown = IF IsSome(window)
                                         THEN RateWindow_remaining_percent(window.v)
                                         ELSE None]
    /\ pc' = "converted"
    /\ UNCHANGED << args, providers, idx, entries, result, rpcOutcome, live, session,
                    req, reqOutcome, message, linesRead, sent, account, run, token,
                    spawnLog, orphans, consulted, stored, operand >>

NextConversions ==
    \/ Strip \/ StripAgain \/ ExtractStatus \/ ExtractWindowed \/ PrintText
    \/ ConvertRpc \/ ConvertHttp \/ ConvertPayload

SpecConversions == InitConversions /\ [][NextConversions]_vars

-----------------------------------------------------------------------------
(* Properties of the orchestrator.                                         *)

Range(f) == {f[i] : i \in DOMAIN f}
IsEntry(r) == IsOk(r) /\ IsSome(r.v)

\* C1: selected_entries pushes exactly the entry of each provider whose resolution
\* produced one, and returns an error if and only if no entry was pushed; when it
\* returns successfully it returns exactly the pushed entries.
C1_ErrorIffNoEntry ==
    [][ /\ (pc = "sel_handle" /\ pc' # pc) =>
              entries' = IF IsEntry(live) THEN Append(entries, live.v.v) ELSE entries
        /\ (pc # "done" /\ pc' = "done") =>
              /\ IsErr(result') <=> entries = << >>
              /\ IsOk(result') => result'.v = entries ]_vars

\* C1 witness: two providers were requested, one produced an entry, the call
\* succeeded with exactly that entry.
C1_Witness ==
    /\ pc = "done"
    /\ Len(providers) = 2
    /\ IsOk(result)
    /\ Len(result.v) = 1

\* C2: a provider whose resolution ended with an error or without data does not
\* end the loop: the next requested provider's first strategy is started, and the
\* only error selected_entries returns once resolution has begun is the
\* all-providers-failed error.
C2_FailureStaysInProvider ==
    [][ /\ (pc = "sel_handle" /\ pc' # pc /\ ~IsEntry(live)) =>
              (pc' = "sel_loop" /\ idx' = idx + 1 /\ result' = Pending)
        /\ (pc = "sel_loop" /\ pc' # pc /\ idx <= Len(providers)) =>
              pc' = (IF providers[idx] = "codex" THEN "rpc_start" ELSE "claude_env")
        /\ (pc \notin {"start", "done"} /\ pc' = "done") =>
              /\ idx = Len(providers) + 1
              /\ IsErr(result') => result'.e.kind = "AllProvidersFailed" ]_vars

\* C2 witness: the /status strategy of codex failed with an I/O error (the write to
\* the child's stdin), codex produced nothing, and claude is being resolved.
C2_Witness ==
    /\ pc = "claude_env"
    /\ providers = << "codex", "claude" >>
    /\ orphans = 1
    /\ entries = << >>

StatusRan == "codex /status" \in Range(spawnLog)

\* C3: the /status strategy of codex is run if and only if the RPC strategy ended
\* without an entry (Ok(None) or an error), after the RPC strategy; an entry of
\* the RPC strategy is the result of the provider.
C3_FallbackIffNoRpcEntry ==
    /\ (pc \in RunPcs \cup {"run_spawn", "run_ret"} /\ run.caller = "status") =>
          (rpcOutcome # Pending /\ ~IsEntry(rpcOutcome))
    /\ (pc = "sel_handle" /\ providers[idx] = "codex") =>
          /\ StatusRan <=> ~IsEntry(rpcOutcome)
          /\ IsEntry(rpcOutcome) => live = rpcOutcome
          /\ spawnLog[1] = "codex app-server"

\* C3 witness: the RPC strategy failed with an error and the /status strategy ran.
C3_Witness ==
    /\ pc = "sel_handle"
    /\ providers[idx] = "codex"
    /\ IsErr(rpcOutcome)
    /\ StatusRan

\* The /status text holds a window or a credits value.
StatusHasData(out) ==
    out.t = "status" /\ (IsSome(out.five) \/ IsSome(out.weekly) \/ IsSome(out.credits))

RpcErrorThenStatusData ==
    /\ pc = "run_ret"
    /\ run.caller = "status"
    /\ IsErr(rpcOutcome) /\ rpcOutcome.e.kind = "RpcError"
    /\ IsOk(run.result) /\ StatusHasData(run.result.v.stdout)

-----------------------------------------------------------------------------
(* Properties of CodexRpcSession::request.                                 *)

Matched == MessageId(message) = Some(req.id)

\* C5 as stated: a request stops reading only at the line whose id is the
\* request's (or at the end of the stream); every other line is discarded and the
\* next one is read.
C5_Claim ==
    (pc = "req_ret" /\ message # NoLine) => (Matched \/ message = EndOfFile)

\* C6: for the line whose id is the request's, an `error` member fails the request
\* with the RPC error naming the method, a line with neither `error` nor `result`
\* fails it with the missing-result error, and a value is returned only from a line
\* with `result` and without `error`.
C6_ResponseOutcome ==
    /\ (pc = "req_ret" /\ Matched) =>
          /\ message.hasError =>
                reqOutcome = Err([kind |-> "RpcError", method |-> req.method])
          /\ (~message.hasError /\ message.result = Absent) =>
                reqOutcome = Err([kind |-> "MissingResult", method |-> req.method])
          /\ (~message.hasError /\ message.result # Absent) =>
                reqOutcome = Ok(message.result)
    /\ (pc = "req_ret" /\ IsOk(reqOutcome)) =>
          (Matched /\ ~message.hasError /\ message.result # Absent)

\* C6 witness: the matching line carries both `error` and `result`; the request
\* has failed with the RPC error.
C6_Witness ==
    /\ pc = "req_ret"
    /\ Matched
    /\ message.hasError
    /\ message.result # Absent
    /\ IsErr(reqOutcome)

-----------------------------------------------------------------------------
(* Properties of the calls to external processes.                          *)

\* C7 as stated: every call to an external process returns: a request that is
\* reading, and a runner call that is writing or polling, eventually reach their
\* return.
C7_Claim ==
    (pc \in {"req_read"} \cup RunPcs) ~> (pc \in {"req_ret", "run_ret"})

\* The part of C7 that holds: every call of the process runner returns.
RunnerReturns == (pc \in RunPcs) ~> (pc = "run_ret")

\* C8 as stated: a child that has not exited at the deadline is killed and the call
\* returns the timeout error.
C8_Claim ==
    (pc = "run_ret" /\ run.aliveAtDeadline) =>
        (run.result = Err([kind |-> "TimedOut"]) /\ run.killed /\ run.child = "reaped")

\* C8 amended: when a poll finds the child still running with the deadline reached,
\* the child is killed and waited on and the call returns the timeout error, which
\* carries none of the output; a call that returned the timeout error has killed
\* and reaped its child.
C8_TimeoutKillsAndDiscards ==
    [][ /\ (pc = "run_poll" /\ pc' # pc /\ run.child = "running" /\ run.deadlinePassed) =>
              /\ pc' = "run_ret"
              /\ run'.result = Err([kind |-> "TimedOut"])
              /\ run'.child = "reaped"
              /\ run'.killed
        /\ (pc' = "run_ret" /\ run'.result = Err([kind |-> "TimedOut"])) =>
              (run'.child = "reaped" /\ run'.killed) ]_vars

\* C8 witness: a call returned the timeout error after its child had written output.
C8_Witness ==
    /\ pc = "run_ret"
    /\ run.result = Err([kind |-> "TimedOut"])
    /\ run.stdout # Empty
    /\ run.child = "reaped"

\* C9 as stated: when a runner call returns after its child was spawned, the child
\* has been reaped, and no child was ever left behind.
C9_Claim ==
    /\ (pc = "run_ret" /\ run.child # "none") => run.child = "reaped"
    /\ orphans = 0

\* C10: when the RPC strategy returns, the child of its session, if one was
\* started, is reaped; the drop kills a child that is still running, writes
\* nothing to it, and is the only way out of a started session; a session is
\* entered only from its own start.
C10_SessionDropped ==
    [][ /\ (pc = "rpc_drop" /\ pc' # pc) =>
              /\ session'.child = "reaped"
              /\ session'.killed = (session.child \in {"running", "stdout_closed"})
              /\ sent' = sent
        /\ (pc \in RpcPcs /\ pc' \notin RpcPcs) =>
              (pc = "rpc_drop" /\ pc' = "codex_after_rpc")
        /\ (pc \notin RpcPcs /\ pc' \in RpcPcs) =>
              (pc = "rpc_start" /\ session = NoSession /\ session'.child = "running")
        /\ pc' = "codex_after_rpc" => session'.child \in {"none", "reaped"}
        /\ pc' \notin RpcPcs \cup {"codex_after_rpc"} => session' = NoSession ]_vars

\* C10 witness: the strategy returned an error (an early return) and the drop
\* killed the child.
C10_Witness ==
    /\ pc = "codex_after_rpc"
    /\ IsErr(rpcOutcome)
    /\ session.child = "reaped"
    /\ session.killed

-----------------------------------------------------------------------------
(* Properties of the RPC strategy.                                         *)

\* C11: when `codex` is not installed, start returns None and the RPC strategy
\* returns "no data" without a session and without writing any message; any other
\* spawn failure is returned as an error.
C11_StartNotInstalled ==
    /\ (pc = "codex_after_rpc" /\ session.spawn = "NotFound") =>
          (rpcOutcome = Ok(None) /\ sent = << >> /\ session.child = "none")
    /\ (pc = "codex_after_rpc" /\ session.spawn = "OtherError") =>
          (IsErr(rpcOutcome) /\ rpcOutcome.e.kind = "Spawn" /\ sent = << >>)
    /\ session.child # "none" => session.spawn = "spawned"

\* C11 witness: `codex` was not found and the RPC strategy has returned "no data".
C11_Witness ==
    /\ pc = "codex_after_rpc"
    /\ session.spawn = "NotFound"
    /\ rpcOutcome = Ok(None)
    /\ spawnLog = << "codex app-server" >>

\* The window carries a usedPercent.
HasUsedPercent(w) == IsSome(w) /\ IsSome(w.v.used_percent)

\* C12: whatever account/read returned, account/rateLimits/read is issued next and
\* the strategy has not failed; a failed account/read leaves no account, and the
\* entry built without an account has no identity; a failed or undecodable
\* account/rateLimits/read is the error of the strategy.
C12_AccountOptionalLimitsRequired ==
    [][ /\ (pc = "req_ret" /\ req.method = "account/read" /\ pc' # pc) =>
              /\ pc' = "req_send"
              /\ req'.method = "account/rateLimits/read"
              /\ rpcOutcome' = Pending
              /\ (IsErr(reqOutcome) \/ reqOutcome.v.t = "empty"
                    \/ (reqOutcome.v.t = "account" /\ reqOutcome.v.type = "unknown"))
                    => ~(IsSome(account') /\ IsSome(account'.v.account))
        /\ (pc = "req_ret" /\ req.method = "account/rateLimits/read" /\ pc' # pc) =>
              /\ (IsErr(reqOutcome) \/ reqOutcome.v.t # "limits") => IsErr(rpcOutcome')
              /\ ( /\ IsOk(reqOutcome) /\ reqOutcome.v.t = "limits"
                   /\ HasUsedPercent(reqOutcome.v.primary)
                         \/ HasUsedPercent(reqOutcome.v.secondary)
                   /\ IsNone(account) ) =>
                    (IsEntry(rpcOutcome') /\ rpcOutcome'.v.v.identity = None) ]_vars

\* C12 witness: account/read failed with an error response, account/rateLimits/read
\* was sent and answered, and the strategy has an entry without identity.
C12_Witness ==
    /\ pc = "rpc_drop"
    /\ IsNone(account)
    /\ Len(sent) = 4
    /\ IsEntry(rpcOutcome)
    /\ rpcOutcome.v.v.identity = None

\* C13: a session has at most one request written and not returned; a request line
\* is written only when none is outstanding, and the session is reading exactly
\* while one is.
C13_OneOutstandingRequest ==
    [][ /\ session'.outstanding \in {0, 1}
        /\ (pc' = "req_read") <=> (session'.outstanding = 1)
        /\ (Len(sent') > Len(sent) /\ IsSome(sent'[Len(sent')].id)) =>
              (pc = "req_send" /\ session.outstanding = 0 /\ reqOutcome = Pending) ]_vars

\* C13 witness: the third request is outstanding, alone, after the first two
\* returned.
C13_Witness ==
    /\ pc = "req_read"
    /\ req.method = "account/rateLimits/read"
    /\ Len(sent) = 4
    /\ session.outstanding = 1

\* The ids of the requests in the lines written, in order.
RECURSIVE SentIds(_)
SentIds(s) ==
    IF s = << >> THEN << >>
    ELSE IF IsSome(s[1].id) THEN << s[1].id.v >> \o SentIds(Tail(s))
    ELSE SentIds(Tail(s))

StrictlyIncreasing(s) == \A i, j \in 1..Len(s) : i < j => s[i] < s[j]

\* C14: a session starts with the counter at 1; each call of request takes the
\* counter as its id and advances it by one, also when the write fails; the ids
\* written are strictly increasing from 1 and below the counter.
C14_RequestIds ==
    [][ /\ (pc = "rpc_start" /\ pc' = "req_send") => session'.next_id = 1
        /\ (pc = "req_send" /\ pc' # pc) =>
              /\ req'.id = session.next_id
              /\ session'.next_id = session.next_id + 1
              /\ Len(sent') > Len(sent) => sent'[Len(sent')].id = Some(session.next_id)
        /\ pc # "req_send" => session'.next_id = session.next_id
              \/ (pc = "rpc_start" /\ session'.next_id = 1)
              \/ (pc = "codex_after_rpc" /\ session' = NoSession)
        /\ sent' # sent =>
              LET ids == SentIds(sent')
              IN  /\ StrictlyIncreasing(ids)
                  /\ \A i \in 1..Len(ids) : ids[i] >= 1 /\ ids[i] < session'.next_id ]_vars

\* C14 witness: the second request failed and the third carries the id 3.
C14_Witness ==
    /\ pc = "req_read"
    /\ IsNone(account)
    /\ req.id = 3
    /\ SentIds(sent) = << 1, 2, 3 >>

\* The position of a method in the exchange.
MethodRank(method) ==
    CASE method = "initialize" -> 1
      [] method = "initialized" -> 2
      [] method = "account/read" -> 3
      [] OTHER -> 4

SentMethods(s) == [i \in 1..Len(s) |-> MethodRank(s[i].method)]

\* C15: the lines written are, in this order, the initialize request, the
\* initialized notification (the only line without id, written only after the
\* initialize request returned a result), account/read and
\* account/rateLimits/read; a failed handshake is the error of the strategy and
\* nothing is written after it.
C15_MessageOrder ==
    [][ /\ sent' # sent => StrictlyIncreasing(SentMethods(sent'))
        /\ \A i \in 1..Len(sent') :
              /\ IsNone(sent'[i].id) <=> sent'[i].method = "initialized"
              /\ sent'[i].method \in {"account/read", "account/rateLimits/read"} =>
                    (Len(sent') >= 2 /\ sent'[2].method = "initialized")
              /\ sent'[i].method = "initialized" => sent'[1].method = "initialize"
        /\ (pc # "rpc_notify" /\ pc' = "rpc_notify") =>
              /\ pc = "req_ret" /\ req.method = "initialize"
              /\ IsOk(reqOutcome) /\ Matched
        /\ (pc = "req_ret" /\ req.method = "initialize" /\ IsErr(reqOutcome)
              /\ pc' # pc) =>
              (pc' = "rpc_drop" /\ rpcOutcome' = reqOutcome)
        /\ (pc = "rpc_notify" /\ pc' # pc /\ sent' = sent) =>
              (pc' = "rpc_drop" /\ IsErr(rpcOutcome'))
        /\ (pc = "rpc_drop" /\ IsErr(rpcOutcome) /\ Len(sent) <= 1) =>
              (pc' \in {"rpc_drop", "codex_after_rpc"} /\ sent' = sent) ]_vars

\* C15 witness: the initialize request was answered with an error; the strategy
\* ends with that error and only the initialize request was written.
C15_Witness ==
    /\ pc = "rpc_drop"
    /\ IsErr(rpcOutcome)
    /\ rpcOutcome.e.kind = "RpcError"
    /\ rpcOutcome.e.method = "initialize"
    /\ Len(sent) = 1

-----------------------------------------------------------------------------
(* Properties of the token resolution and of the secret store.             *)

\* The sources of resolve_claude_oauth_access_token, by priority.
ResolveOrder == << "env1", "env2", "secret-tool", "kwallet1", "kwallet2", "file" >>

\* What a source yields: its value without surrounding white space, or nothing when
\* the source is absent, failed, or holds only white space.
Yield(c) ==
    IF IsSome(c.found) /\ Trim(c.found.v) # << >> THEN Some(Trim(c.found.v)) ELSE None

\* The lookup commands spawned so far.
LookupSpawns ==
    Cardinality({i \in 1..Len(spawnLog) :
        spawnLog[i] \in {"secret-tool lookup", "kwallet-query kdewallet",
                         "kwallet-query kdewallet5"}})

\* C16: the sources are read in the order of ResolveOrder; every source read
\* before the last one yielded nothing; the resolution returns as soon as a source
\* yields a value, with that value trimmed, without reading or spawning any later
\* source; it returns None only after all six sources yielded nothing.
C16_ResolveOrder ==
    LET n == Len(consulted)
    IN  /\ n <= 6
        /\ \A i \in 1..n : consulted[i].source = ResolveOrder[i]
        /\ \A i \in 1..(n - 1) : IsNone(Yield(consulted[i]))
        /\ (n > 0 /\ IsSome(Yield(consulted[n]))) => pc = "claude_token"
        /\ (n > 0 /\ pc = "claude_token") =>
              /\ token = Yield(consulted[n])
              /\ IsNone(token) => n = 6
              /\ LookupSpawns = (IF n <= 2 THEN 0 ELSE IF n = 6 THEN 3 ELSE n - 2)
        /\ (n > 0 /\ pc # "claude_token") =>
              /\ n \in 2..5
              /\ IF n = 5 THEN pc = "claude_file"
                          ELSE run.caller = ResolveOrder[n + 1]

\* C16 witness: the environment is empty, secret-tool printed only white space,
\* and the wallet kdewallet yields the token, returned trimmed; kdewallet5 and the
\* file were not read.
C16_Witness ==
    /\ pc = "claude_token"
    /\ Len(consulted) = 4
    /\ consulted[3].found = Some(<< " ", "\n" >>)
    /\ consulted[4].found = Some(<< " ", "k", "\n" >>)
    /\ token = Some(<< "k" >>)
    /\ LookupSpawns = 2

\* The backends of store_claude_secret, by priority.
StoreOrder == << "store-secret-tool", "store-kwallet1", "store-kwallet2" >>

\* The backend took the write: its command ran and exited with status zero.  A
\* command that is not installed, timed out, failed otherwise or exited with a
\* non-zero status did not.
Accepts(a) == IsOk(a.result) /\ a.result.v.success

\* The store commands spawned so far.
StoreSpawns ==
    Cardinality({i \in 1..Len(spawnLog) :
        spawnLog[i] \in {"secret-tool store", "kwallet-query -w kdewallet",
                         "kwallet-query -w kdewallet5"}})

\* C17: the backends are tried in the order of StoreOrder; every backend tried
\* before the last one did not take the write; the store succeeds exactly when the
\* last backend tried took it, and then no later backend was spawned; it fails
\* exactly when all three backends were tried and none took it; otherwise the next
\* backend is being tried.
C17_StoreOrder ==
    LET n == Len(stored.attempts)
    IN  /\ n <= 3
        /\ \A i \in 1..n : stored.attempts[i].backend = StoreOrder[i]
        /\ \A i \in 1..(n - 1) : ~Accepts(stored.attempts[i])
        /\ IsOk(stored.value) <=> (n > 0 /\ Accepts(stored.attempts[n]))
        /\ IsErr(stored.value) <=> (n = 3 /\ ~Accepts(stored.attempts[3]))
        /\ stored.value # Pending => (StoreSpawns = n /\ pc = "auth_done")
        /\ (stored.value = Pending /\ n > 0) =>
              (pc \in RunPcs \cup {"run_spawn", "run_ret"} /\ run.caller = StoreOrder[n + 1])

\* C17 witness: secret-tool is not installed, the wallet kdewallet took the write,
\* the store succeeded and kdewallet5 was not tried.
C17_Witness ==
    /\ IsOk(stored.value)
    /\ Len(stored.attempts) = 2
    /\ stored.attempts[1].result = Err([kind |-> "NotFound"])
    /\ StoreSpawns = 2

-----------------------------------------------------------------------------
(* Properties of the entries.                                              *)

\* The output cut at its last newline, or None when it has no newline.
LastNewlineSplit(output) ==
    LET breaks == {i \in 1..Len(output) : output[i] = "\n"}
    IN  IF breaks = {} THEN None
        ELSE LET last == CHOOSE i \in breaks : \A j \in breaks : i >= j
             IN  Some([body |-> SubSeq(output, 1, last - 1),
                       status_line |-> SubSeq(output, last + 1, Len(output))])

\* The status line of the cut reads as the integer 200.
StatusIs200(parts) ==
    IsSome(parts) /\ ParseU16(Trim(parts.v.status_line)) = Some(200)

\* curl has run and fetch_claude_entry takes its output.
CurlReturnsOutput == pc = "run_ret" /\ run.caller = "curl" /\ IsOk(run.result)

\* C18 as stated: the output of curl is cut at its last newline; an entry is
\* returned only when the status line reads 200, and Ok(None), never an error,
\* when there is no newline or the status line does not read 200.
C18_Claim ==
    [][ (CurlReturnsOutput /\ pc' # pc) =>
           LET parts == LastNewlineSplit(StdoutText(run.result.v.stdout))
           IN  /\ IsOk(live')
               /\ IsEntry(live') => StatusIs200(parts)
               /\ ~StatusIs200(parts) => live' = Ok(None) ]_vars

\* C18 amended: the output of curl, without the carriage returns and newlines at
\* its end, is cut at its last newline; an entry is returned only when the status
\* line reads 200, and Ok(None), never an error, when there is no newline or the
\* status line does not read 200.
C18_SplitAfterTrim ==
    [][ (CurlReturnsOutput /\ pc' # pc) =>
           LET parts == LastNewlineSplit(TrimEndNewlines(StdoutText(run.result.v.stdout)))
           IN  /\ IsOk(live')
               /\ IsEntry(live') => StatusIs200(parts)
               /\ ~StatusIs200(parts) => live' = Ok(None) ]_vars

\* C18 witness: the entry built from the output that ends with a newline after
\* the status code (the body whose windows carry only a reset time).
C18_Witness ==
    /\ pc = "sel_handle"
    /\ IsEntry(live)
    /\ live.v.v.provider = S_claude
    /\ live.v.v.primary = Some([used_percent |-> None, resets_at |-> Some("unix:1")])

\* The entry has a window or a credits value.
HasData(e) ==
    \/ IsSome(e.primary) \/ IsSome(e.secondary) \/ IsSome(e.tertiary)
    \/ IsSome(e.credits_remaining)

\* C19: every entry returned by a strategy, and every entry of the list, has a
\* window or a credits value.
C19_NoEmptyEntry ==
    /\ IsEntry(rpcOutcome) => HasData(rpcOutcome.v.v)
    /\ IsEntry(live) => HasData(live.v.v)
    /\ \A i \in 1..Len(entries) : HasData(entries[i])
    /\ (pc = "done" /\ IsOk(result)) => \A i \in 1..Len(result.v) : HasData(result.v[i])

\* C19 witness: the list holds an entry whose only value is the credits balance.
C19_Witness ==
    \E i \in 1..Len(entries) :
        /\ IsNone(entries[i].primary) /\ IsNone(entries[i].secondary)
        /\ IsNone(entries[i].tertiary)
        /\ IsSome(entries[i].credits_remaining)

\* The usedPercent of the window, when the window has one, is within 0..100.
InRange(w) ==
    (IsSome(w) /\ IsSome(w.v.used_percent)) =>
        (w.v.used_percent.v >= 0 /\ w.v.used_percent.v <= 100)

WindowsInRange(e) == InRange(e.primary) /\ InRange(e.secondary) /\ InRange(e.tertiary)

\* C20 as stated: the usedPercent of every window of every entry produced is
\* within 0..100.
C20_Claim ==
    /\ IsEntry(rpcOutcome) => WindowsInRange(rpcOutcome.v.v)
    /\ IsEntry(live) => WindowsInRange(live.v.v)
    /\ \A i \in 1..Len(entries) : WindowsInRange(entries[i])

-----------------------------------------------------------------------------
(* Properties of the conversions.                                          *)

\* The first line of the text that holds the label, letter case aside.
FirstLineWith(text, label) ==
    LET lines == StrLines(text)
        holds(i) == Contains(ToAsciiLowercase(lines[i]), ToAsciiLowercase(label))
    IN  IF \E i \in 1..Len(lines) : holds(i)
           THEN Some(lines[CHOOSE i \in 1..Len(lines) :
                               holds(i) /\ \A j \in 1..(i - 1) : ~holds(j)])
           ELSE None

\* The window of a label as C21 states it: 100 minus the number that ends right
\* before the first '%' of the label's line, when that line says "left".
WindowByToken(text, label) ==
    LET line == FirstLineWith(text, label)
        percent == Find(line.v, "%")
        value == TokenBefore(line.v, percent)
    IN  IF IsNone(line) THEN None
        ELSE IF ~Contains(ToAsciiLowercase(line.v), S_left) \/ percent = 0 THEN None
        ELSE IF IsNone(value) THEN None
        ELSE Some([used_percent |-> Some(HundredMinus(value.v))])

PrimaryOf(entry) == IF IsSome(entry) THEN entry.v.primary ELSE None
SecondaryOf(entry) == IF IsSome(entry) THEN entry.v.secondary ELSE None
CreditsOf(entry) == IF IsSome(entry) THEN entry.v.credits_remaining ELSE None

\* C21 as stated: the window of a label is 100 minus the numeric token immediately
\* before the first '%' of the first line that holds the label, when that line also
\* holds "left", and there is no window otherwise; the text "5h limit: 72% left" /
\* "weekly limit: 39% left" gives 28 and 61.
C21_Claim ==
    (pc = "extracted" /\ operand.kind = "status") =>
        /\ PrimaryOf(converted.value) = WindowByToken(converted.cleaned, S_5h_limit)
        /\ SecondaryOf(converted.value) = WindowByToken(converted.cleaned, S_weekly_limit)
        /\ operand.text = T_example =>
              /\ PrimaryOf(converted.value) = Some([used_percent |-> Some(Dec(28, 0))])
              /\ SecondaryOf(converted.value) = Some([used_percent |-> Some(Dec(61, 0))])


\* The text "Current session", k lines "...", and a last line.
AfterLabel(k, last) ==
    << "C","u","r","r","e","n","t"," ","s","e","s","s","i","o","n","\n" >> \o Filler(k) \o last

L_45_used == << "U","s","a","g","e",":"," ","4","5","%"," ","u","s","e","d","\n" >>
L_45_left == << "4","5","%"," ","l","e","f","t","\n" >>
L_130_spent == << "S","p","e","n","t",":"," ","1","3","0","%","\n" >>

\* C22: the windowed search takes the first line with a '%' among the 8 lines after
\* the label line, keeps the number before the '%' on a used/spent/consumed line and
\* takes it from 100 otherwise, within 0..100; "Current session", "...",
\* "Usage: 45% used" gives 45.
C22_WindowedSearch ==
    (pc = "converted" /\ operand.kind = "session") =>
        /\ operand.text = AfterLabel(1, L_45_used) => converted.value = Some(Dec(45, 0))
        /\ \A k \in 0..MaxFiller :
              /\ operand.text = AfterLabel(k, L_45_used) =>
                    converted.value = IF k < 8 THEN Some(Dec(45, 0)) ELSE None
              /\ operand.text = AfterLabel(k, L_45_left) =>
                    converted.value = IF k < 8 THEN Some(Dec(55, 0)) ELSE None
              /\ operand.text = AfterLabel(k, L_130_spent) =>
                    converted.value = IF k < 8 THEN Some(Dec(100, 0)) ELSE None
        /\ ~Contains(ToAsciiLowercase(operand.text), ToAsciiLowercase(AfterLabel(0, << >>)))
              => converted.value = None
        /\ IsSome(converted.value) =>
              (converted.value.v.n >= 0
                  /\ converted.value.v.n <= 100 * Pow10(converted.value.v.d))

\* C22 witness: the search has read 45 off "Usage: 45% used", two lines after the label.
C22_Witness ==
    /\ pc = "converted"
    /\ operand.kind = "session"
    /\ operand.text = AfterLabel(1, L_45_used)
    /\ converted.value = Some(Dec(45, 0))


\* The number of the first line that holds "credits" and has a number, NumberOf(line)
\* being the number of a line.
FirstCredit(text, NumberOf(_)) ==
    LET lines == StrLines(text)
        has(i) == /\ Contains(ToAsciiLowercase(lines[i]), S_credits)
                  /\ IsSome(NumberOf(lines[i]))
    IN  IF \E i \in 1..Len(lines) : has(i)
           THEN NumberOf(lines[CHOOSE i \in 1..Len(lines) :
                                   has(i) /\ \A j \in 1..(i - 1) : ~has(j)])
           ELSE None

AfterColon(line) == SubSeq(line, Find(line, ":") + 1, Len(line))

\* The number of a line as C23 states it: of the text after the colon when the line
\* has a colon, of the whole line when it has none.
NumberAsStated(line) ==
    IF Find(line, ":") # 0 THEN parse_first_number(AfterColon(line))
    ELSE parse_first_number(line)

\* The number of a line: of the text after the colon, and of the whole line when
\* there is no colon or no number after it.
NumberTailThenLine(line) ==
    IF Find(line, ":") # 0 /\ IsSome(parse_first_number(AfterColon(line)))
        THEN parse_first_number(AfterColon(line))
        ELSE parse_first_number(line)

T_credits_example == << "C","r","e","d","i","t","s"," ","r","e","m","a","i","n","i","n",
                        "g",":"," ","1",",","2","3","4",".","5","\n" >>
T_credits_5 == << "C","r","e","d","i","t","s"," ","5",":"," ","n","o","n","e","\n" >>

\* C23 as stated: the credits value is the first number found on the lines that hold
\* "credits", read after the colon on a line with a colon and on the whole line on a
\* line without one; "Credits remaining: 1,234.5" gives 1234.5.
C23_Claim ==
    (pc = "extracted" /\ operand.kind = "status") =>
        /\ CreditsOf(converted.value) = FirstCredit(converted.cleaned, NumberAsStated)
        /\ operand.text = T_credits_example =>
              CreditsOf(converted.value) = Some(Dec(12345, 1))

\* C23: the credits value is the first number found on the lines that hold
\* "credits"; on a line with a colon the text after the first colon is read first,
\* and the whole line when that text has no number; a line without a colon is read
\* whole; "Credits remaining: 1,234.5" gives 1234.5.
C23_TailThenLine ==
    (pc = "extracted" /\ operand.kind = "status") =>
        /\ CreditsOf(converted.value) = FirstCredit(converted.cleaned, NumberTailThenLine)
        /\ operand.text = T_credits_example =>
              CreditsOf(converted.value) = Some(Dec(12345, 1))

\* C23 witness: the text "Credits 5: none" has been read; there is no number after
\* its colon, and the credits value is the 5 before it.
C23_Witness ==
    /\ pc = "extracted"
    /\ operand.text = T_credits_5
    /\ IsNone(parse_first_number(AfterColon(T_credits_5)))
    /\ CreditsOf(converted.value) = Some(Dec(5, 0))


\* The bytes of the text from `index` on that belong to no control sequence, as they
\* are: an ESC, and with an ESC '[' the bytes up to the first final byte, are left out.
RECURSIVE OutsideSequences(_, _)
OutsideSequences(bytes, index) ==
    IF index > Len(bytes) THEN << >>
    ELSE IF bytes[index] = ESC
        THEN IF index + 1 <= Len(bytes) /\ bytes[index + 1] = "["
                THEN OutsideSequences(bytes, AfterFinalByte(bytes, index + 2))
                ELSE OutsideSequences(bytes, index + 1)
        ELSE << bytes[index] >> \o OutsideSequences(bytes, index + 1)

HasEsc(text) == \E i \in 1..Len(text) : text[i] = ESC

\* C24 as stated: stripping a text that was stripped changes nothing, and stripping a
\* text without a control sequence gives the text itself.
C24_Claim ==
    [][ /\ (converted.passes = 1 /\ converted'.passes = 2) =>
               converted'.cleaned = converted.cleaned
        /\ (converted'.passes = 1 /\ ~HasEsc(operand.text)) =>
               converted'.cleaned = operand.text ]_vars

\* C25 as stated: the cleaned text is the text without its control sequences, every
\* other byte as it was and in the same order, and holds no ESC.
C25_Claim ==
    converted.passes = 1 =>
        /\ converted.cleaned = OutsideSequences(operand.text, 1)
        /\ ~HasEsc(converted.cleaned)


-----------------------------------------------------------------------------
(* Properties of the strategies and of the orchestrator, continued.        *)

\* C26: when the runner of the /status strategy or of the HTTP strategy returns
\* NotFound or TimedOut the strategy returns Ok(None); it returns any other error
\* of the runner as an error.
C26_RunnerDowngrade ==
    [][ (/\ pc = "run_ret"
         /\ run.caller \in {"status", "curl"}
         /\ pc' = "sel_handle"
         /\ IsErr(run.result)) =>
            live' = IF run.result.e.kind \in {"NotFound", "TimedOut"}
                       THEN Ok(None) ELSE run.result ]_vars

\* C26 witness: the run of `codex /status` passed its deadline and the runner has
\* returned TimedOut to the strategy.
C26_Witness ==
    /\ pc = "run_ret"
    /\ run.caller = "status"
    /\ run.deadlinePassed
    /\ run.result = Err([kind |-> "TimedOut"])

\* The number of times the command line was spawned.
Spawns(line) == Cardinality({i \in 1..Len(spawnLog) : spawnLog[i] = line})

\* C27: in one invocation the RPC session is started at most once, the /status run
\* is made at most once and the HTTP fetch is made at most once.
C27_AtMostOnce ==
    args.command = "usage" =>
        /\ Spawns("codex app-server") <= 1
        /\ Spawns("codex /status") <= 1
        /\ Spawns("curl") <= 1

\* C27 witness: both providers were resolved, each strategy was attempted, the RPC
\* strategy and the /status strategy failed, and nothing was attempted twice.
C27_Witness ==
    /\ pc = "done"
    /\ IsErr(result)
    /\ Spawns("codex app-server") = 1
    /\ Spawns("codex /status") = 1
    /\ Spawns("curl") = 1

\* C28: what is left of a window is unknown exactly when its usedPercent is unknown,
\* and 100 minus the usedPercent within 0..100 otherwise (70 for 30), for the window
\* of a payload and for the windows print_text shows.
C28_RemainingPercent ==
    /\ (pc = "converted" /\ operand.kind = "payload" /\ IsSome(converted.value)) =>
          LET used == converted.value.v.used_percent
              left == converted.shown
          IN  /\ IsNone(left) <=> IsNone(used)
              /\ used = Some(Dec(30, 0)) => left = Some(Dec(70, 0))
              /\ used = Some(Dec(0, 0)) => left = Some(Dec(100, 0))
              /\ used = Some(Dec(100, 0)) => left = Some(Dec(0, 0))
              /\ used = Some(Dec(130, 0)) => left = Some(Dec(0, 0))
              /\ used = Some(Dec(0 - 5, 0)) => left = Some(Dec(100, 0))
              /\ used = Some(Dec(305, 1)) => left = Some(Dec(695, 1))
              /\ operand.window.usedPercent.t \in {"absent", "null", "bool"} =>
                    IsNone(left)
    /\ (pc = "converted" /\ operand.kind = "status") =>
          LET entry == converted.value.v
              left == converted.shown
          IN  /\ IsNone(left.session_left) <=> IsNone(entry.primary)
              /\ IsNone(left.weekly_left) <=> IsNone(entry.secondary)
              /\ operand.text = T_example =>
                    /\ left.session_left = Some(Dec(72, 0))
                    /\ left.weekly_left = Some(Dec(39, 0))

\* C28 witness: the window of a payload with usedPercent 30 has 70 left.
C28_Witness ==
    /\ pc = "converted"
    /\ operand.kind = "payload"
    /\ converted.value = Some([used_percent |-> Some(Dec(30, 0))])
    /\ converted.shown = Some(Dec(70, 0))

HasDigit(s) == \E i \in 1..Len(s) : IsDigit(s[i])

\* The extraction of the label's window has nothing to find in the text: no line
\* holds the label, or the first that does has no "left", no '%', or no digit before
\* the '%'.
NothingFor(text, label) ==
    LET line == FirstLineWith(text, label)
    IN  \/ IsNone(line)
        \/ ~Contains(ToAsciiLowercase(line.v), S_left)
        \/ Find(line.v, "%") = 0
        \/ ~HasDigit(SubSeq(line.v, 1, Find(line.v, "%") - 1))

\* No line of the text that holds "credits" holds a digit.
NoCreditsNumber(text) ==
    LET lines == StrLines(text)
    IN  \A i \in 1..Len(lines) :
            Contains(ToAsciiLowercase(lines[i]), S_credits) => ~HasDigit(lines[i])

T_weekly_na == << "5","h"," ","l","i","m","i","t",":"," ","7","2","%"," ","l","e","f","t",
                  "\n","w","e","e","k","l","y"," ","l","i","m","i","t",":"," ","n","/",
                  "a","%"," ","l","e","f","t","\n" >>

\* C29: when there is nothing to extract (no label line, no "left", no '%', no digit
\* before the '%', no number on a "credits" line, a window of the app-server without
\* usedPercent, a window of the usage JSON without utilization) the window or its
\* usedPercent, or the credits value, is None and not a number.
C29_NoneWhenNothingFound ==
    /\ (pc = "extracted" /\ operand.kind = "status") =>
          /\ NothingFor(converted.cleaned, S_5h_limit) =>
                IsNone(PrimaryOf(converted.value))
          /\ NothingFor(converted.cleaned, S_weekly_limit) =>
                IsNone(SecondaryOf(converted.value))
          /\ NoCreditsNumber(converted.cleaned) => IsNone(CreditsOf(converted.value))
    /\ (pc = "converted" /\ operand.kind = "rpc") =>
          ((IsNone(operand.window) \/ IsNone(operand.window.v.used_percent)) =>
              IsNone(converted.value))
    /\ (pc = "converted" /\ operand.kind = "http") =>
          ((IsNone(operand.window) \/ IsNone(operand.window.v.utilization)) =>
              (IsNone(converted.value) \/ IsNone(converted.value.v.used_percent)))

\* C29 witness: the "weekly limit" line holds "n/a% left"; the entry has the primary
\* window and no secondary window.
C29_Witness ==
    /\ pc = "extracted"
    /\ operand.text = T_weekly_na
    /\ IsSome(PrimaryOf(converted.value))
    /\ IsNone(SecondaryOf(converted.value))

\* a is b with some elements left out.
RECURSIVE IsSubsequence(_, _)
IsSubsequence(a, b) ==
    IF a = << >> THEN TRUE
    ELSE IF b = << >> THEN FALSE
    ELSE IF Head(a) = Head(b) THEN IsSubsequence(Tail(a), Tail(b))
    ELSE IsSubsequence(a, Tail(b))

ProviderOf(entry) == IF entry.provider = S_codex THEN "codex" ELSE "claude"

\* C30: codex is resolved before claude; a provider is resolved only once the one
\* before it is done; the entries are, in order, entries of providers already
\* resolved, one per provider at most.
C30_ProvidersInOrder ==
    (args.command = "usage" /\ pc # "start") =>
        /\ providers \in {<< >>, << "codex" >>, << "claude" >>, << "codex", "claude" >>}
        /\ (IsOk(requested_providers(args.provider))
               /\ ToAsciiLowercase(Trim(args.provider)) \in {S_all, S_both}) =>
              providers = << "codex", "claude" >>
        /\ IsSubsequence([i \in 1..Len(entries) |-> ProviderOf(entries[i])],
                         SubSeq(providers, 1, idx - 1))
        /\ \A i, j \in 1..Len(entries) :
              i # j => entries[i].provider # entries[j].provider
        /\ pc = "sel_loop" => (session = NoSession /\ run = NoRun /\ live = Pending)
        /\ (session # NoSession \/ run.caller = "status") =>
              (idx <= Len(providers) /\ providers[idx] = "codex")
        /\ (token # None \/ run.caller \in {"secret-tool", "kwallet1", "kwallet2", "curl"}) =>
              (idx <= Len(providers) /\ providers[idx] = "claude")

\* C30 witness: codex and claude were resolved in this order; codex gave nothing and
\* the list holds the entry of claude alone.
C30_Witness ==
    /\ pc = "done"
    /\ providers = << "codex", "claude" >>
    /\ Len(entries) = 1
    /\ entries[1].provider = S_claude
    /\ Spawns("codex /status") = 1

-----------------------------------------------------------------------------
(* Further properties of the codex strategies and of the entry point.      *)

\* C31: a read that finds the child's stdout closed before the response was read
\* makes the outstanding request return an error at once; no later read of the
\* session returns a line; the RPC strategy then returns an error, and
\* fetch_codex_entry goes on to the /status strategy.
C31_ClosedStdoutFallsBack ==
    [][ /\ (pc = "req_read" /\ message' = EndOfFile) =>
              /\ pc' = "req_ret"
              /\ reqOutcome' = Err([kind |-> "Closed", method |-> req.method])
              /\ session'.outstanding = 0
        /\ (pc = "req_read" /\ session.eof /\ message' # message) =>
              message' = EndOfFile
        /\ (pc' = "codex_after_rpc" /\ session'.eof) => IsErr(rpcOutcome')
        /\ (pc = "codex_after_rpc" /\ session.eof) =>
              /\ pc' = "run_spawn"
              /\ run' = Call("status", TRUE)
              /\ live' = live ]_vars

\* C31 witness: the child answered initialize and closed its stdout while it went
\* on reading; account/read and account/rateLimits/read were written and both
\* found the stdout closed; the /status strategy ran and codex is resolved.
C31_Witness ==
    /\ pc = "sel_handle"
    /\ providers[idx] = "codex"
    /\ rpcOutcome = Err([kind |-> "Closed", method |-> "account/rateLimits/read"])
    /\ StatusRan
    /\ IsOk(live)
    /\ IsSome(live.v)

\* The credits number of a /status output.
CreditsOfOutput(r) ==
    IF IsOk(r) /\ r.v.stdout.t = "status" THEN r.v.stdout.credits ELSE None

\* C32: the RPC strategy gets an entry only from a decoded answer to
\* account/rateLimits/read, and gets one from such an answer exactly when its
\* primary or its secondary window has a usedPercent; an answer without such a
\* window gives Ok(None) even when it carries credits, the /status strategy runs
\* next, and the credits of the entry of /status are those of the /status text.
C32_EntryIffUsableWindow ==
    [][ /\ (IsEntry(rpcOutcome') /\ ~IsEntry(rpcOutcome)) =>
              (pc = "req_ret" /\ req.method = "account/rateLimits/read")
        /\ ( /\ pc = "req_ret" /\ req.method = "account/rateLimits/read" /\ pc' # pc
             /\ IsOk(reqOutcome) /\ reqOutcome.v.t = "limits" ) =>
              /\ IsEntry(rpcOutcome') <=>
                    \/ HasUsedPercent(reqOutcome.v.primary)
                    \/ HasUsedPercent(reqOutcome.v.secondary)
              /\ ~IsEntry(rpcOutcome') => rpcOutcome' = Ok(None)
        /\ (pc = "codex_after_rpc" /\ rpcOutcome = Ok(None)) =>
              /\ pc' = "run_spawn"
              /\ run' = Call("status", TRUE)
              /\ live' = live
        /\ (pc = "run_ret" /\ run.caller = "status" /\ IsEntry(live')) =>
              live'.v.v.credits_remaining = CreditsOfOutput(run.result) ]_vars

\* C32 witness: the app-server was started and answered account/rateLimits/read
\* with a credits balance and a primary window without usedPercent (the only
\* decoded answer without a usable window); the strategy returned Ok(None), its
\* session is dropped, and fetch_codex_entry is about to run /status.
C32_Witness ==
    /\ pc = "codex_after_rpc"
    /\ rpcOutcome = Ok(None)
    /\ session.spawn = "spawned"
    /\ session.child = "reaped"
    /\ session.next_id = 4
    /\ ~session.eof

\* The source an entry of the strategy with this label is to carry.
SourceFor(label) ==
    IF args.source \in {S_auto, << "A","u","t","o" >>} THEN label ELSE args.source

\* C33: the entry a strategy returns carries the strategy's label (codex-cli for
\* the RPC, codex-status for /status, claude-oauth-api for the HTTP fetch) when
\* --source is "auto" in any letter case, and the value of --source otherwise; the
\* entry is pushed as returned, and the "source" of its JSON payload is the same.
C33_SourceLabel ==
    [][ /\ (pc = "codex_after_rpc" /\ IsEntry(live')) =>
              live'.v.v.source = Some(SourceFor(S_codex_cli))
        /\ (pc = "run_ret" /\ run.caller = "status" /\ IsEntry(live')) =>
              live'.v.v.source = Some(SourceFor(S_codex_status))
        /\ (pc = "run_ret" /\ run.caller = "curl" /\ IsEntry(live')) =>
              live'.v.v.source = Some(SourceFor(S_claude_oauth_api))
        /\ (IsEntry(live') /\ live' # live) =>
              (pc = "codex_after_rpc" \/ (pc = "run_ret" /\ run.caller \in {"status", "curl"}))
        /\ entries' # entries =>
              (IsEntry(live) /\ entries' = Append(entries, live.v.v))
        /\ \A i \in 1..Len(entries') :
              Some(cli_payload_source(entries'[i], args')) = entries'[i].source ]_vars

\* C33 witness: --source cli, both providers; the entry of codex came from /status
\* and the entry of claude from the HTTP fetch, and both carry "cli".
C33_Witness ==
    /\ pc = "done"
    /\ args.source = << "c","l","i" >>
    /\ Len(entries) = 2
    /\ StatusRan
    /\ entries[1].provider = S_codex /\ entries[1].source = Some(<< "c","l","i" >>)
    /\ entries[2].provider = S_claude /\ entries[2].source = Some(<< "c","l","i" >>)

\* The selectors of ProviderArgs that name no provider: `gemini`, and one blank.
UnknownSelectors == { << "g","e","m","i","n","i" >>, << " " >> }

\* C34: `codexbar usage` with a selector that is none of all, both, codex and
\* claude once trimmed and lowercased ends with the unknown-provider error as its
\* first step: nothing is spawned, no credential source is read, no provider is
\* resolved; with any other selector the error is never returned.
C34_UnknownProviderFailsFirst ==
    args.command = "usage" =>
        /\ args.provider \in UnknownSelectors =>
              /\ pc \in {"start", "done"}
              /\ pc = "done" <=> result = Err([kind |-> "UnknownProvider"])
              /\ spawnLog = << >>
              /\ consulted = << >>
              /\ orphans = 0
              /\ session = NoSession /\ run = NoRun /\ token = None
              /\ providers = << >> /\ entries = << >> /\ live = Pending
        /\ args.provider \notin UnknownSelectors =>
              /\ result # Err([kind |-> "UnknownProvider"])
              /\ pc # "start" => providers # << >>

\* C34 witness: `codexbar usage --provider " "` has returned the error.
C34_Witness ==
    /\ args.command = "usage"
    /\ args.provider = << " " >>
    /\ pc = "done"
    /\ result = Err([kind |-> "UnknownProvider"])
    /\ spawnLog = << >>
    /\ consulted = << >>

=============================================================================
